---- MODULE Spec2Model ----
(***************************************************************************)
(* Path containment of the Ironbeard MCP filesystem server.                *)
(*                                                                         *)
(* SecurityContext (src/src/security.rs) decides, for a caller-supplied    *)
(* path, whether it lies in one of the allowed directories and which       *)
(* canonical path is handed to the operation handlers.  The validators are *)
(* modelled on top of the two things they are built from: the lexical path *)
(* operations of std::path (components, parent, file_name, join,           *)
(* starts_with) and the system calls behind canonicalize / exists /        *)
(* is_file / is_dir (realpath(3) and stat(2) on a Unix filesystem with     *)
(* symbolic links).  The traversal tools directory_tree, list_directory and *)
(* search_files (src/src/tools) start from a validated directory and are   *)
(* modelled on directory trees of their own, in the specification          *)
(* Traversal.                                                              *)
(***************************************************************************)
EXTENDS Naturals, Sequences, FiniteSets, TLC

VARIABLES fs, allowed_dirs, call, config

vars == <<fs, allowed_dirs, call, config>>

(***************************************************************************)
(* Bounds of the model.                                                    *)
(***************************************************************************)
\* longest absolute raw path, in segments between separators
MaxLen == 3
\* longest relative raw path, in segments
MaxRelLen == 1
\* symbolic links one resolution follows before the OS gives up (ELOOP)
MaxLinks == 6
\* largest configured traversal depth (Config.max_depth, any usize in the code)
MaxConfigDepth == 2

(***************************************************************************)
(* Names, raw paths.                                                       *)
(*                                                                         *)
(* A raw path is the string the caller supplied: absolute or relative, a   *)
(* sequence of segments between separators (a name, "." or ".."), and a    *)
(* trailing separator or not.  "/ws/a/" is                                 *)
(* [abs |-> TRUE, segs |-> <<"ws", "a">>, trail |-> TRUE].                 *)
(***************************************************************************)
Names == {"ws", "ws2", "a", "b", "l"}

Tokens == Names \cup {".", ".."}

\* the spelling of a name, for the string form of a path
NameChars(n) ==
    CASE n = "ws"  -> <<"w", "s">>
      [] n = "ws2" -> <<"w", "s", "2">>
      [] OTHER     -> <<n>>

SeqsUpTo(S, n) == UNION {[1..k -> S] : k \in 0..n}

MkPath(abs, segs, trail) == [abs |-> abs, segs |-> segs, trail |-> trail]

\* an absolute path without trailing separator: the shape of every PathBuf
\* that canonicalize returns
AbsPath(segs) == MkPath(TRUE, segs, FALSE)

RawPaths ==
    {MkPath(TRUE, s, t) : s \in SeqsUpTo(Tokens, MaxLen), t \in BOOLEAN}
    \cup {MkPath(FALSE, s, t) : s \in SeqsUpTo(Tokens, MaxRelLen), t \in BOOLEAN}

\* "/" followed by a separator is "/" again, and "" followed by a separator is
\* "/": neither is a further raw path
WellFormed(p) == p.trail => p.segs # <<>>

IsPrefix(s, t) == Len(s) <= Len(t) /\ SubSeq(t, 1, Len(s)) = s

Range(s) == {s[i] : i \in 1..Len(s)}

(***************************************************************************)
(* std::path, lexical operations.                                          *)
(***************************************************************************)
\* Path::components yields segment i as a component unless it is a "." that
\* is not the very first segment of a relative path; empty segments (doubled
\* and trailing separators) never are components
IsComponent(p, i) == p.segs[i] # "." \/ (i = 1 /\ ~p.abs)

ComponentIndices(p) == {i \in 1..Len(p.segs) : IsComponent(p, i)}

SetMax(S) == CHOOSE x \in S : \A y \in S : y <= x

RECURSIVE BodyFrom(_, _)
BodyFrom(p, i) ==
    IF i > Len(p.segs) THEN <<>>
    ELSE IF IsComponent(p, i) THEN <<p.segs[i]>> \o BodyFrom(p, i + 1)
    ELSE BodyFrom(p, i + 1)

\* Path::components: RootDir is "/", CurDir ".", ParentDir "..", Normal a name
Components(p) == (IF p.abs THEN <<"/">> ELSE <<>>) \o BodyFrom(p, 1)

\* Path::parent is Some unless the last component is the root or there is none
HasParent(p) == ComponentIndices(p) # {}

\* Path::parent: the path up to the component before the last one, trailing
\* separators and skipped "." segments trimmed
Parent(p) ==
    LET k == SetMax(ComponentIndices(p))
        before == {i \in ComponentIndices(p) : i < k}
        j == IF before = {} THEN 0 ELSE SetMax(before)
    IN  MkPath(p.abs, SubSeq(p.segs, 1, j), FALSE)

\* Path::file_name is Some iff the last component is a normal one
HasFileName(p) ==
    /\ ComponentIndices(p) # {}
    /\ p.segs[SetMax(ComponentIndices(p))] \in Names

FileName(p) == p.segs[SetMax(ComponentIndices(p))]

\* Path::join with a single normal component
Join(p, name) == MkPath(p.abs, Append(p.segs, name), FALSE)

\* the rendered string of an absolute path, and the comparison of two paths
\* as strings (str::starts_with), which is not what Path::starts_with does
RECURSIVE Chars(_)
Chars(segs) ==
    IF segs = <<>> THEN <<>>
    ELSE <<"/">> \o NameChars(Head(segs)) \o Chars(Tail(segs))

StringStartsWith(p, base) == IsPrefix(Chars(base.segs), Chars(p.segs))

\* Path::starts_with: whole components only
StartsWith(p, base) == IsPrefix(Components(base), Components(p))

(***************************************************************************)
(* The filesystem: a node for every canonical location.                    *)
(***************************************************************************)
WS == <<"ws">>
WS2 == <<"ws2">>
WS2_A == <<"ws2", "a">>
WS2_B == <<"ws2", "b">>
WS_A == <<"ws", "a">>
WS_B == <<"ws", "b">>
WS_A_B == <<"ws", "a", "b">>
WS_L == <<"ws", "l">>

\* the working directory of the server process
Cwd == WS

Slots == {WS, WS2, WS2_A, WS_A, WS_A_B, WS_L}

None == [kind |-> "none", target |-> <<>>]
Dir == [kind |-> "dir", target |-> <<>>]
File == [kind |-> "file", target |-> <<>>]
Link(t) == [kind |-> "link", target |-> t]

LinkTargets == {WS2_A, WS2, WS2_B, WS_A, WS_B, WS_L}

\* /ws and /ws2 are directories, /ws2/a is a file; /ws/a is absent, a file or
\* a directory that may hold the file b; /ws/l is absent or a symbolic link
FileSystems ==
    {[s \in Slots |->
        CASE s = WS \/ s = WS2 -> Dir
          [] s = WS2_A -> File
          [] s = WS_A -> a
          [] s = WS_A_B -> b
          [] s = WS_L -> l] :
     a \in {None, File, Dir}, b \in {None, File},
     l \in {None} \cup {Link(t) : t \in LinkTargets}}

\* a file has no children
Consistent(f) == f[WS_A_B] # None => f[WS_A] = Dir

Lookup(f, c) ==
    IF c = <<>> THEN Dir ELSE IF c \in DOMAIN f THEN f[c] ELSE None

Front(s) == SubSeq(s, 1, Len(s) - 1)

Failed == [ok |-> FALSE, at |-> <<>>]

\* path resolution of the kernel and of realpath(3): every segment is looked
\* up in the directory reached so far, a symbolic link is replaced by its
\* target, ".." is the parent of the directory reached (of "/" it is "/")
RECURSIVE Walk(_, _, _, _)
Walk(f, cur, segs, fuel) ==
    IF segs = <<>> THEN [ok |-> TRUE, at |-> cur]
    ELSE IF Lookup(f, cur).kind # "dir" THEN Failed
    ELSE LET s == Head(segs)
             rest == Tail(segs)
             child == Append(cur, s)
             n == Lookup(f, child)
         IN  IF s = "." THEN Walk(f, cur, rest, fuel)
             ELSE IF s = ".." THEN
                 Walk(f, IF cur = <<>> THEN cur ELSE Front(cur), rest, fuel)
             ELSE IF n.kind = "none" THEN Failed
             ELSE IF n.kind = "link" THEN
                 IF fuel = 0 THEN Failed
                 ELSE Walk(f, <<>>, n.target \o rest, fuel - 1)
             ELSE Walk(f, child, rest, fuel)

\* the resolution of a raw path string: the empty path resolves to nothing,
\* a trailing separator demands a directory like a trailing "."
Resolve(f, p) ==
    IF ~p.abs /\ p.segs = <<>> THEN Failed
    ELSE Walk(f, IF p.abs THEN <<>> ELSE Cwd,
              p.segs \o (IF p.trail THEN <<".">> ELSE <<>>), MaxLinks)

\* Path::canonicalize
canonicalize(f, p) ==
    LET r == Resolve(f, p) IN [ok |-> r.ok, path |-> AbsPath(r.at)]

\* the kind of entry stat finds behind the result of a resolution
KindAt(f, r) == IF r.ok THEN Lookup(f, r.at).kind ELSE "none"

\* Path::exists, Path::is_file, Path::is_dir: stat follows symbolic links
exists(f, p) == Resolve(f, p).ok

is_file(f, p) == KindAt(f, Resolve(f, p)) = "file"

is_dir(f, p) == KindAt(f, Resolve(f, p)) = "dir"

(***************************************************************************)
(* SecurityContext.                                                        *)
(***************************************************************************)
Ok(p) == [kind |-> "Ok", path |-> p]

PathDenied(p) == [kind |-> "PathDenied", path |-> p]

NotFound(p) == [kind |-> "NotFound", path |-> p]

NotAFile(p) == [kind |-> "NotAFile", path |-> p]

NotADirectory(p) == [kind |-> "NotADirectory", path |-> p]

\* only the first allowed directory is consulted
InFirstAllowedDir(dirs, canonical) == StartsWith(canonical, AbsPath(dirs[1]))

\* self.allowed_dirs.iter().any(|dir| canonical.starts_with(dir))
InAllowedDirs(dirs, canonical) ==
    \E i \in 1..Len(dirs) : StartsWith(canonical, AbsPath(dirs[i]))

\* validate_path, lines 34-44: the containment check of the candidate
CheckAllowed(dirs, canonical, path) ==
    IF InAllowedDirs(dirs, canonical) THEN Ok(canonical) ELSE PathDenied(path)

\* a missing parent reported like a path outside the roots
JoinParentDenying(dirs, path, canonical_parent) ==
    IF ~canonical_parent.ok THEN PathDenied(path)
    ELSE CheckAllowed(dirs, Join(canonical_parent.path, FileName(path)), path)

\* validate_path, lines 27-30: the parent has been canonicalized (or not)
\* and the file name is joined to it
JoinParent(dirs, path, canonical_parent) ==
    IF ~canonical_parent.ok THEN NotFound(Parent(path))
    ELSE CheckAllowed(dirs, Join(canonical_parent.path, FileName(path)), path)

\* validate_path, lines 17-32, given the outcome c of path.canonicalize()
MatchCanonicalize(f, dirs, path, c) ==
    IF c.ok THEN CheckAllowed(dirs, c.path, path)
    ELSE IF ~HasParent(path) THEN PathDenied(path)
    ELSE IF ~HasFileName(path) THEN PathDenied(path)
    ELSE JoinParent(dirs, path, canonicalize(f, Parent(path)))

validate_path(f, dirs, path) ==
    MatchCanonicalize(f, dirs, path, canonicalize(f, path))

\* the path as it was given is handed back
CheckExistsRaw(f, path, r) ==
    IF r.kind # "Ok" THEN r
    ELSE IF exists(f, r.path) THEN Ok(path)
    ELSE NotFound(path)

\* validate_path_exists, lines 50-56, given r = self.validate_path(path)
CheckExists(f, path, r) ==
    IF r.kind # "Ok" THEN r
    ELSE IF exists(f, r.path) THEN r
    ELSE NotFound(path)

validate_path_exists(f, dirs, path) ==
    CheckExists(f, path, validate_path(f, dirs, path))

\* validate_file, lines 62-68, given r = self.validate_path_exists(path)
CheckIsFile(f, path, r) ==
    IF r.kind # "Ok" THEN r
    ELSE IF is_file(f, r.path) THEN r
    ELSE NotAFile(path)

validate_file(f, dirs, path) ==
    CheckIsFile(f, path, validate_path_exists(f, dirs, path))

\* validate_directory, lines 141-147, given r = self.validate_path_exists(path)
CheckIsDir(f, path, r) ==
    IF r.kind # "Ok" THEN r
    ELSE IF is_dir(f, r.path) THEN r
    ELSE NotADirectory(path)

validate_directory(f, dirs, path) ==
    CheckIsDir(f, path, validate_path_exists(f, dirs, path))

\* the up-front scan of validate_creatable_path, lines 78-87
HasDotComponent(path) == \E c \in Range(Components(path)) : c \in {".", ".."}

\* the upward walk, lines 90-111: the candidate ancestor, the segments peeled
\* off so far (deepest first) and how the walk ended
RECURSIVE WalkUp(_, _, _)
WalkUp(f, existing, tail_segments) ==
    IF exists(f, existing)
    THEN [end |-> "found", existing |-> existing, tail |-> tail_segments]
    ELSE IF ~HasParent(existing)
    THEN [end |-> "NotFound", existing |-> existing, tail |-> tail_segments]
    ELSE IF ~HasFileName(existing)
    THEN [end |-> "PathDenied", existing |-> existing, tail |-> tail_segments]
    ELSE WalkUp(f, Parent(existing), Append(tail_segments, FileName(existing)))

Reverse(s) == [i \in 1..Len(s) |-> s[Len(s) + 1 - i]]

\* the segments joined in the order they were peeled off
ReassembleUnreversed(canonical_base, tail_segments) ==
    MkPath(canonical_base.abs, canonical_base.segs \o tail_segments, FALSE)

\* lines 130-133: result = canonical_base, then result.join(seg) for the
\* segments reversed
Reassemble(canonical_base, tail_segments) ==
    MkPath(canonical_base.abs, canonical_base.segs \o Reverse(tail_segments), FALSE)

\* lines 114-135, given the canonicalized ancestor
CheckBase(dirs, path, w, canonical_base) ==
    IF ~canonical_base.ok THEN NotFound(w.existing)
    ELSE IF ~InAllowedDirs(dirs, canonical_base.path) THEN PathDenied(path)
    ELSE Ok(Reassemble(canonical_base.path, w.tail))

\* a walk that runs out of ancestors reported like a path outside the roots
AfterWalkUpDenying(f, dirs, path, w) ==
    IF w.end = "found" THEN CheckBase(dirs, path, w, canonicalize(f, w.existing))
    ELSE PathDenied(path)

\* lines 93-116, given the outcome w of the upward walk
AfterWalkUp(f, dirs, path, w) ==
    IF w.end = "NotFound" THEN NotFound(path)
    ELSE IF w.end = "PathDenied" THEN PathDenied(path)
    ELSE CheckBase(dirs, path, w, canonicalize(f, w.existing))

validate_creatable_path(f, dirs, path) ==
    IF HasDotComponent(path) THEN PathDenied(path)
    ELSE AfterWalkUp(f, dirs, path, WalkUp(f, path, <<>>))

(***************************************************************************)
(* The state machine: a filesystem and a root set fixed at start-up, and   *)
(* the validator calls of the handlers, one request at a time, each        *)
(* recorded with its result.                                               *)
(***************************************************************************)
Validators ==
    {"validate_path", "validate_path_exists", "validate_file",
     "validate_directory", "validate_creatable_path"}

Apply(v, f, dirs, path) ==
    CASE v = "validate_path" -> validate_path(f, dirs, path)
      [] v = "validate_path_exists" -> validate_path_exists(f, dirs, path)
      [] v = "validate_file" -> validate_file(f, dirs, path)
      [] v = "validate_directory" -> validate_directory(f, dirs, path)
      [] v = "validate_creatable_path" -> validate_creatable_path(f, dirs, path)

NoCall == [op |-> "none", path |-> AbsPath(<<>>), result |-> Ok(AbsPath(<<>>))]

\* Config::validate: every allowed directory is canonical and a directory;
\* SecurityContext::new keeps the list as given
AllowedDirSets == {<<WS>>, <<WS2, WS>>}

\* Config, of which the validators read nothing: the traversal depth
Configs == [max_depth : 0..MaxConfigDepth]

Init ==
    /\ fs \in {f \in FileSystems : Consistent(f)}
    /\ allowed_dirs \in AllowedDirSets
    /\ call = NoCall
    /\ config = [max_depth |-> MaxConfigDepth]

\* a validator that drops every root but /ws while it answers
CallNarrowingRoots(v, path) ==
    /\ call' = [op |-> v, path |-> path, result |-> Apply(v, fs, allowed_dirs, path)]
    /\ allowed_dirs' = <<WS>>
    /\ UNCHANGED <<fs, config>>

\* a handler passes the path of its request to a validator
Call(v, path) ==
    /\ call' = [op |-> v, path |-> path, result |-> Apply(v, fs, allowed_dirs, path)]
    /\ UNCHANGED <<fs, allowed_dirs, config>>

Idle == call = NoCall

ValidatePath ==
    Idle /\ \E p \in RawPaths : WellFormed(p) /\ Call("validate_path", p)

ValidatePathExists ==
    Idle /\ \E p \in RawPaths : WellFormed(p) /\ Call("validate_path_exists", p)

ValidateFile ==
    Idle /\ \E p \in RawPaths : WellFormed(p) /\ Call("validate_file", p)

ValidateDirectory ==
    Idle /\ \E p \in RawPaths : WellFormed(p) /\ Call("validate_directory", p)

ValidateCreatablePath ==
    Idle /\ \E p \in RawPaths : WellFormed(p) /\ Call("validate_creatable_path", p)

\* the handler answers the request with the result (the canonical path goes
\* to the OS call, a rejection to the caller) and the service is idle again
Respond ==
    /\ call # NoCall
    /\ call' = NoCall
    /\ UNCHANGED <<fs, allowed_dirs, config>>

Next ==
    \/ ValidatePath
    \/ ValidatePathExists
    \/ ValidateFile
    \/ ValidateDirectory
    \/ ValidateCreatablePath
    \/ Respond

Spec == Init /\ [][Next]_vars

TypeOK ==
    /\ call.op \in Validators \cup {"none"}
    /\ call.result.kind \in
        {"Ok", "PathDenied", "NotFound", "NotAFile", "NotADirectory"}

(***************************************************************************)
(* The traversal tools directory_tree, list_directory and search_files.    *)
(*                                                                         *)
(* They read directories below the start directory, so the filesystems of  *)
(* this part are trees with more entries: names that share a prefix, a     *)
(* hidden directory, a chain of nested directories, a directory that       *)
(* cannot be read, an entry whose metadata cannot be read, a symbolic      *)
(* link.                                                                   *)
(***************************************************************************)
\* the entry ceilings of directory_tree and list_directory (1000 in the
\* code, scaled to the trees of the model)
MAX_TREE_ENTRIES == 3
MAX_DIR_ENTRIES == 2
\* max_results of search_files when absent (50 in the code) and its hard
\* ceiling (200 in the code), scaled alike
DefaultMaxResults == 2
MaxResultsCap == 3

EntryNames == {"a", "a-b", "b", ".h", "l"}

\* the characters of an entry name
Spelling(n) ==
    CASE n = "a-b" -> <<"a", "-", "b">>
      [] n = ".h"  -> <<".", "h">>
      [] OTHER     -> NameChars(n)

\* the byte of a character
Code(c) ==
    CASE c = " " -> 32 [] c = "(" -> 40 [] c = "-" -> 45 [] c = "." -> 46
      [] c = "/" -> 47 [] c = "2" -> 50 [] c = "a" -> 97 [] c = "b" -> 98
      [] c = "h" -> 104 [] c = "l" -> 108 [] c = "s" -> 115 [] c = "w" -> 119

\* the order of str and String: byte by byte, a proper prefix first
RECURSIVE StrLess(_, _)
StrLess(s, t) ==
    IF t = <<>> THEN FALSE
    ELSE IF s = <<>> THEN TRUE
    ELSE IF Head(s) = Head(t) THEN StrLess(Tail(s), Tail(t))
    ELSE Code(Head(s)) < Code(Head(t))

\* the least element of a set of names by the strings key gives them
LeastBy(S, key) == CHOOSE x \in S : \A y \in S \ {x} : StrLess(key[x], key[y])

\* Vec::sort and sort_by on entries with distinct keys
RECURSIVE SortBy(_, _)
SortBy(S, key) ==
    IF S = {} THEN <<>>
    ELSE <<LeastBy(S, key)>> \o SortBy(S \ {LeastBy(S, key)}, key)

NameKey == [n \in EntryNames |-> Spelling(n)]

WS_A_A == <<"ws", "a", "a">>
WS_A_A_B == <<"ws", "a", "a", "b">>
WS_A_A_A == <<"ws", "a", "a", "a">>
WS_A_A_A_B == <<"ws", "a", "a", "a", "b">>
WS_AB == <<"ws", "a-b">>
WS_AB_B == <<"ws", "a-b", "b">>
WS_H == <<"ws", ".h">>
WS_H_B == <<"ws", ".h", "b">>

TreeLocs ==
    Slots \cup {WS_B, WS_A_A, WS_A_A_B, WS_A_A_A, WS_A_A_A_B, WS_AB, WS_AB_B,
                WS_H, WS_H_B}

\* an entry and what the OS answers about it: "unreadable" is a directory
\* read_dir fails on, "nometa" an entry whose metadata call fails
Entry(kind, os) == [kind |-> kind, target |-> <<>>, os |-> os]

Absent == Entry("none", "ok")
PlainDir == Entry("dir", "ok")
LockedDir == Entry("dir", "unreadable")
PlainFile == Entry("file", "ok")
StaleFile == Entry("file", "nometa")
SymLink(t) == [kind |-> "link", target |-> t, os |-> "ok"]

\* present exactly when the directory above it is
Under(parent, node) == IF parent.kind = "dir" THEN node ELSE Absent

\* /ws holds a (a file or a directory), a-b, .h, b and the link l; /ws/a
\* holds b and the chain a/a/a, with a file b at every level
Trees ==
    {[c \in TreeLocs |->
        CASE c = WS \/ c = WS2 -> PlainDir
          [] c = WS2_A -> PlainFile
          [] c = WS_L -> SymLink(WS_A)
          [] c = WS_A -> a
          [] c = WS_A_B -> ab
          [] c = WS_A_A -> aa
          [] c = WS_A_A_B -> Under(aa, PlainFile)
          [] c = WS_A_A_A -> Under(aa, PlainDir)
          [] c = WS_A_A_A_B -> Under(aa, PlainFile)
          [] c = WS_AB -> dash
          [] c = WS_AB_B -> Under(dash, PlainFile)
          [] c = WS_H -> h
          [] c = WS_H_B -> Under(h, PlainFile)
          [] c = WS_B -> b] :
     a \in {PlainFile, PlainDir, LockedDir}, ab \in {Absent, PlainFile},
     aa \in {Absent, PlainDir, LockedDir}, dash \in {Absent, PlainDir, PlainFile},
     h \in {Absent, PlainDir}, b \in {Absent, PlainFile, StaleFile}}

\* a file has no children
TreeConsistent(f) ==
    f[WS_A].kind # "dir" => (f[WS_A_B] = Absent /\ f[WS_A_A] = Absent)

EntryAt(f, dir, n) ==
    IF Append(dir, n) \in DOMAIN f THEN f[Append(dir, n)] ELSE Absent

Children(f, dir) == {n \in EntryNames : EntryAt(f, dir, n).kind # "none"}

\* the order in which the OS hands out the entries of a directory is not
\* specified: ascending and descending by name stand for it
ReadDirOrders == {"asc", "desc"}

\* the entries read_dir yields for a directory it could open
ReadDir(f, dir, ord) ==
    IF ord = "asc" THEN SortBy(Children(f, dir), NameKey)
    ELSE Reverse(SortBy(Children(f, dir), NameKey))

\* fs::read_dir succeeds
CanReadDir(f, dir) == f[dir].kind = "dir" /\ f[dir].os # "unreadable"

\* DirEntry::metadata does not follow symbolic links: a link is neither a
\* directory nor a file
MetadataOk(e) == e.os # "nometa"

\* the metadata of what a link points at
IsDirEntryFollowingLinks(e) == MetadataOk(e) /\ e.kind \in {"dir", "link"}

IsDirEntry(e) == MetadataOk(e) /\ e.kind = "dir"

IsFileEntry(e) == MetadataOk(e) /\ e.kind = "file"

\* name.starts_with('.')
Hidden(n) == Head(Spelling(n)) = "."

(***************************************************************************)
(* directory_tree and build_tree_sync.  A line of the rendering is kept as *)
(* its parts: the prefix is the list of "was the last entry" flags of the  *)
(* directories above (the columns of blanks or bars), last chooses the     *)
(* connector.                                                              *)
(***************************************************************************)
Line(kind, prefix, last, name, at) ==
    [kind |-> kind, prefix |-> prefix, last |-> last, name |-> name, at |-> at]

\* "{prefix}... (truncated, exceeded {MAX_TREE_ENTRIES} entries. ...)"
TreeNotice(prefix, dir) == Line("notice", prefix, FALSE, "", dir)

\* lines 134-160: the entries that are kept, as directories and as files; the
\* order in which read_dir yields them is lost in the sort that follows
VisibleDirs(f, dir) ==
    {n \in Children(f, dir) : ~Hidden(n) /\ IsDirEntry(EntryAt(f, dir, n))}

VisibleFiles(f, dir) ==
    {n \in Children(f, dir) : ~Hidden(n) /\ IsFileEntry(EntryAt(f, dir, n))}

\* what a call of build_tree_sync hands back: Err, or the lines, with the
\* shared entry counter and the directories read so far
TreeErr(acc) == [acc EXCEPT !.err = TRUE]

\* the counter is bumped, found above the ceiling, and the notice is pushed
Truncate(acc, prefix, dir) ==
    [acc EXCEPT !.count = @ + 1, !.output = Append(@, TreeNotice(prefix, dir))]

Emit(acc, line) == [acc EXCEPT !.count = @ + 1, !.output = Append(@, line)]

RECURSIVE FileLoop(_, _, _, _, _, _)
\* lines 213-230: the files of a level, j the next one
FileLoop(dir, prefix, dirs, files, j, acc) ==
    IF j > Len(files) THEN acc
    ELSE IF acc.count + 1 > MAX_TREE_ENTRIES THEN Truncate(acc, prefix, dir)
    ELSE FileLoop(dir, prefix, dirs, files, j + 1,
                  Emit(acc, Line("file", prefix, Len(dirs) + j = Len(dirs) + Len(files),
                                 files[j], Append(dir, files[j]))))

RECURSIVE build_tree_sync(_, _, _, _, _, _)
RECURSIVE DirLoop(_, _, _, _, _, _, _, _, _)
RECURSIVE AfterSubtree(_, _, _, _, _, _, _, _, _)

\* the subtree is rendered whatever the depth
DirLoopUnbounded(f, dir, prefix, max_depth, current_depth, dirs, files, i, acc) ==
    IF i > Len(dirs) THEN FileLoop(dir, prefix, dirs, files, 1, acc)
    ELSE IF acc.count + 1 > MAX_TREE_ENTRIES THEN Truncate(acc, prefix, dir)
    ELSE AfterSubtree(f, dir, prefix, max_depth, current_depth, dirs, files, i,
             build_tree_sync(f, Append(dir, dirs[i]),
                 Append(prefix, i = Len(dirs) + Len(files)),
                 max_depth, current_depth + 1,
                 Emit(acc, Line("dir", prefix, i = Len(dirs) + Len(files),
                                dirs[i], Append(dir, dirs[i])))))

\* lines 180-211: the directories of a level, i the next one
DirLoop(f, dir, prefix, max_depth, current_depth, dirs, files, i, acc) ==
    IF i > Len(dirs) THEN FileLoop(dir, prefix, dirs, files, 1, acc)
    ELSE IF acc.count + 1 > MAX_TREE_ENTRIES THEN Truncate(acc, prefix, dir)
    ELSE IF current_depth < max_depth
    THEN AfterSubtree(f, dir, prefix, max_depth, current_depth, dirs, files, i,
             build_tree_sync(f, Append(dir, dirs[i]),
                 Append(prefix, i = Len(dirs) + Len(files)),
                 max_depth, current_depth + 1,
                 Emit(acc, Line("dir", prefix, i = Len(dirs) + Len(files),
                                dirs[i], Append(dir, dirs[i])))))
    ELSE DirLoop(f, dir, prefix, max_depth, current_depth, dirs, files, i + 1,
             Emit(acc, Line("dir", prefix, i = Len(dirs) + Len(files),
                            dirs[i], Append(dir, dirs[i]))))

\* the walk goes on after a subtree that hit the ceiling
AfterSubtreeGoingOn(f, dir, prefix, max_depth, current_depth, dirs, files, i, sub) ==
    IF sub.err THEN TreeErr(sub)
    ELSE DirLoop(f, dir, prefix, max_depth, current_depth, dirs, files, i + 1, sub)

\* lines 198-208: the recursive call has returned sub; `?` hands its error
\* on, its lines follow the directory's own, and the walk stops when the
\* counter has passed the ceiling
AfterSubtree(f, dir, prefix, max_depth, current_depth, dirs, files, i, sub) ==
    IF sub.err THEN TreeErr(sub)
    ELSE IF sub.count > MAX_TREE_ENTRIES THEN sub
    ELSE DirLoop(f, dir, prefix, max_depth, current_depth, dirs, files, i + 1, sub)

\* lines 167-178: the entries are sorted and the loops run, unless there is
\* nothing to show
Render(f, dir, prefix, max_depth, current_depth, dirs, files, acc) ==
    IF Len(dirs) + Len(files) = 0 THEN acc
    ELSE DirLoop(f, dir, prefix, max_depth, current_depth, dirs, files, 1, acc)

\* lines 128-165: the directory is read, hidden names and entries without
\* metadata are dropped, directories and files are told apart
build_tree_sync(f, dir, prefix, max_depth, current_depth, acc) ==
    IF ~CanReadDir(f, dir)
    THEN TreeErr([acc EXCEPT !.opened = @ \cup {dir}])
    ELSE Render(f, dir, prefix, max_depth, current_depth,
                SortBy(VisibleDirs(f, dir), NameKey),
                SortBy(VisibleFiles(f, dir), NameKey),
                [acc EXCEPT !.opened = @ \cup {dir}])

\* an optional request parameter
NoneParam == [some |-> FALSE, v |-> 0]

Some(v) == [some |-> TRUE, v |-> v]

\* the depth is the caller's, whatever the configuration says
\* params.max_depth.map(|d| d as usize).unwrap_or(self.config.max_depth)
EffectiveDepth(cfg, max_depth) ==
    IF max_depth.some THEN max_depth.v ELSE cfg.max_depth

\* what a tool answers: an error, or the start directory with the lines or
\* matches; opened are the directories read_dir was called on, truncated is
\* the mark in the header of a search result
ToolErr(error) ==
    [ok |-> FALSE, error |-> error, root |-> <<>>, output |-> <<>>,
     opened |-> {}, truncated |-> FALSE]

ToolOk(root, output, opened, truncated) ==
    [ok |-> TRUE, error |-> "", root |-> root, output |-> output,
     opened |-> opened, truncated |-> truncated]

\* directory_tree, lines 120-125: the walk has returned
TreeResult(root, t) ==
    IF t.err THEN ToolErr("Io")
    ELSE ToolOk(root, t.output, t.opened, FALSE)

\* directory_tree, lines 106-118, given v = self.security.validate_directory(path)
TreeFrom(f, cfg, max_depth, v) ==
    IF v.kind # "Ok" THEN ToolErr(v.kind)
    ELSE TreeResult(v.path.segs,
             build_tree_sync(f, v.path.segs, <<>>, EffectiveDepth(cfg, max_depth), 0,
                 [err |-> FALSE, output |-> <<>>, count |-> 0, opened |-> {}]))

directory_tree(f, dirs, cfg, path, max_depth) ==
    TreeFrom(f, cfg, max_depth, validate_directory(f, dirs, path))

(***************************************************************************)
(* list_directory.  A line is kept with the name it shows and the text the *)
(* sort compares: "[DIR]  {name}/" and "[FILE] {name} ({size}, {date})".   *)
(***************************************************************************)
ListLine(tag, name, text) == [tag |-> tag, name |-> name, text |-> text]

\* the text of a directory line after its tag, and of a file line up to the
\* size
DirText == [n \in EntryNames |-> Spelling(n) \o <<"/">>]

FileText == [n \in EntryNames |-> Spelling(n) \o <<" ", "(">>]

\* lines 68-91: entries without metadata are skipped, a link is neither
ListedDirs(f, dir) == {n \in Children(f, dir) : IsDirEntry(EntryAt(f, dir, n))}

ListedFiles(f, dir) == {n \in Children(f, dir) : IsFileEntry(EntryAt(f, dir, n))}

DirLines(names) == [i \in 1..Len(names) |-> ListLine("DIR", names[i], DirText[names[i]])]

FileLines(names) ==
    [i \in 1..Len(names) |-> ListLine("FILE", names[i], FileText[names[i]])]

\* "(Showing first {MAX_DIR_ENTRIES} of {total} entries. ...)"
ListNotice == ListLine("NOTICE", "", <<>>)

\* the ceiling cuts the listing without saying so
ListOutputSilent(lines) ==
    IF Len(lines) > MAX_DIR_ENTRIES THEN SubSeq(lines, 1, MAX_DIR_ENTRIES)
    ELSE lines

\* lines 99-110 ("(empty directory)" is the empty listing)
ListOutput(lines) ==
    IF Len(lines) > MAX_DIR_ENTRIES
    THEN Append(SubSeq(lines, 1, MAX_DIR_ENTRIES), ListNotice)
    ELSE lines

\* lines 61-110, given v = self.security.validate_directory(path); dirs.sort()
\* and files.sort() compare the lines
ListFrom(f, v) ==
    IF v.kind # "Ok" THEN ToolErr(v.kind)
    ELSE IF ~CanReadDir(f, v.path.segs) THEN ToolErr("Io")
    ELSE ToolOk(v.path.segs,
             ListOutput(DirLines(SortBy(ListedDirs(f, v.path.segs), DirText))
                        \o FileLines(SortBy(ListedFiles(f, v.path.segs), FileText))),
             {v.path.segs}, FALSE)

list_directory(f, dirs, path) == ListFrom(f, validate_directory(f, dirs, path))

(***************************************************************************)
(* search_files.                                                           *)
(***************************************************************************)
\* the glob patterns of the requests; "[" does not compile
Patterns == {"*", "b", "**/b", "["}

\* Glob::new(pattern) succeeds
Compiles(pattern) == pattern # "["

\* GlobMatcher::is_match on a path relative to the start directory: "*"
\* matches any text, separators included ("literal_separator" is off by
\* default), "**/" any number of leading directories
IsMatch(pattern, relative) ==
    CASE pattern = "*" -> relative # <<>>
      [] pattern = "b" -> relative = <<"b">>
      [] pattern = "**/b" -> relative # <<>> /\ relative[Len(relative)] = "b"
      [] OTHER -> FALSE

\* entry_path.strip_prefix(&canonical)
StripPrefix(at, canonical) ==
    IF IsPrefix(canonical, at) THEN SubSeq(at, Len(canonical) + 1, Len(at)) ELSE at

\* params.max_results.unwrap_or(50).min(200)
MaxResults(max_results) ==
    IF ~max_results.some THEN
        IF DefaultMaxResults < MaxResultsCap THEN DefaultMaxResults ELSE MaxResultsCap
    ELSE IF max_results.v < MaxResultsCap THEN max_results.v
    ELSE MaxResultsCap

\* the walk so far: the stack of directories to read, the matches, the
\* directories read
Walked(stack, results, opened, truncated) ==
    [stack |-> stack, results |-> results, opened |-> opened, truncated |-> truncated]

\* subdirs.sort(), then pushed in reverse: the least ends on top
Pushed(stack, dir, depth, subdirs) ==
    stack \o [i \in 1..Cardinality(subdirs) |->
                 [dir |-> Append(dir, Reverse(SortBy(subdirs, NameKey))[i]),
                  depth |-> depth + 1]]

RECURSIVE Scan(_, _, _, _, _, _, _)

\* lines 74-82: a match has been pushed; at max_results the call returns
Found(f, q, top, entries, k, subdirs, w) ==
    IF Len(w.results) >= q.max_results THEN [w EXCEPT !.truncated = TRUE]
    ELSE Scan(f, q, top, entries, k + 1, subdirs, w)

\* lines 58-94: the entries of the directory on top, k the next one; at the
\* end its subdirectories are pushed
Scan(f, q, top, entries, k, subdirs, w) ==
    IF k > Len(entries)
    THEN [w EXCEPT !.stack = Pushed(@, top.dir, top.depth, subdirs)]
    ELSE IF ~MetadataOk(EntryAt(f, top.dir, entries[k]))
    THEN Scan(f, q, top, entries, k + 1, subdirs, w)
    ELSE IF IsDirEntry(EntryAt(f, top.dir, entries[k])) /\ top.depth < q.max_depth
    THEN Scan(f, q, top, entries, k + 1, subdirs \cup {entries[k]}, w)
    ELSE IF IsFileEntry(EntryAt(f, top.dir, entries[k]))
            /\ IsMatch(q.pattern, StripPrefix(Append(top.dir, entries[k]), q.canonical))
    THEN Found(f, q, top, entries, k, subdirs,
               [w EXCEPT !.results = Append(@, Append(top.dir, entries[k]))])
    ELSE Scan(f, q, top, entries, k + 1, subdirs, w)

\* lines 50-54: the directory popped is read, or passed over if it cannot be
Pop(f, q, top, w) ==
    IF ~CanReadDir(f, top.dir) THEN w
    ELSE Scan(f, q, top, ReadDir(f, top.dir, q.ord), 1, {}, w)

\* one turn of the loop of line 50: the directory on top of the stack
Turn(f, q, w) ==
    Pop(f, q, w.stack[Len(w.stack)],
        [w EXCEPT !.stack = Front(@), !.opened = @ \cup {w.stack[Len(w.stack)].dir}])

RECURSIVE SearchWalk(_, _, _)
\* line 50: while let Some((dir, depth)) = stack.pop(), left by the return
\* of line 76
SearchWalk(f, q, w) ==
    IF w.stack = <<>> \/ w.truncated THEN w
    ELSE SearchWalk(f, q, Turn(f, q, w))

SearchResult(root, w) == ToolOk(root, w.results, w.opened, w.truncated)

\* lines 40-102, given v = self.security.validate_directory(path); q is the
\* request with its limits worked out, ord the order read_dir happens to use
SearchFrom(f, cfg, pattern, max_results, ord, v) ==
    IF v.kind # "Ok" THEN ToolErr(v.kind)
    ELSE IF ~Compiles(pattern) THEN ToolErr("PatternError")
    ELSE SearchResult(v.path.segs,
             SearchWalk(f,
                 [canonical |-> v.path.segs, pattern |-> pattern,
                  max_results |-> MaxResults(max_results),
                  max_depth |-> cfg.max_depth, ord |-> ord],
                 Walked(<<[dir |-> v.path.segs, depth |-> 0]>>, <<>>, {}, FALSE)))

search_files(f, dirs, cfg, path, pattern, max_results, ord) ==
    SearchFrom(f, cfg, pattern, max_results, ord, validate_directory(f, dirs, path))

(***************************************************************************)
(* The traversal requests: the service starts on one of the trees, and     *)
(* answers one request at a time.                                          *)
(***************************************************************************)
StartPaths == {AbsPath(WS), AbsPath(WS_A), AbsPath(WS2)}

DepthParams == {NoneParam} \cup {Some(d) : d \in 0..(MaxConfigDepth + 1)}

ResultParams == {NoneParam} \cup {Some(k) : k \in 0..(MaxResultsCap + 1)}

Tools == {"directory_tree", "list_directory", "search_files"}

TraversalInit ==
    /\ fs \in {f \in Trees : TreeConsistent(f)}
    /\ allowed_dirs \in AllowedDirSets
    /\ call = NoCall
    /\ config \in Configs

\* the request and its answer
Request(tool, path, max_depth, pattern, max_results, result) ==
    /\ call' = [op |-> tool, path |-> path, max_depth |-> max_depth,
                pattern |-> pattern, max_results |-> max_results,
                result |-> result]
    /\ UNCHANGED <<fs, allowed_dirs, config>>

DirectoryTree ==
    Idle /\ \E p \in StartPaths, d \in DepthParams :
        Request("directory_tree", p, d, "", NoneParam,
                directory_tree(fs, allowed_dirs, config, p, d))

ListDirectory ==
    Idle /\ \E p \in StartPaths :
        Request("list_directory", p, NoneParam, "", NoneParam,
                list_directory(fs, allowed_dirs, p))

SearchFiles ==
    Idle /\ \E p \in StartPaths, g \in Patterns, m \in ResultParams,
               ord \in ReadDirOrders :
        Request("search_files", p, NoneParam, g, m,
                search_files(fs, allowed_dirs, config, p, g, m, ord))

TraversalNext ==
    \/ DirectoryTree
    \/ ListDirectory
    \/ SearchFiles
    \/ Respond

Traversal == TraversalInit /\ [][TraversalNext]_vars

(***************************************************************************)
(* Where a path leads.                                                     *)
(*                                                                         *)
(* The location an OS call on a path touches: every symbolic link on the   *)
(* way, the last segment included, is replaced by its target (open, write, *)
(* rename and mkdir all resolve their argument this way); a segment that   *)
(* does not exist yet stays as written, it is where the entry would be     *)
(* created.                                                                *)
(***************************************************************************)
RECURSIVE Follow(_, _, _, _)
Follow(f, cur, segs, fuel) ==
    IF segs = <<>> THEN cur
    ELSE LET s == Head(segs)
             rest == Tail(segs)
             child == Append(cur, s)
             n == Lookup(f, child)
         IN  IF s = "." THEN Follow(f, cur, rest, fuel)
             ELSE IF s = ".." THEN
                 Follow(f, IF cur = <<>> THEN cur ELSE Front(cur), rest, fuel)
             ELSE IF n.kind = "link" /\ fuel > 0 THEN
                 Follow(f, <<>>, n.target \o rest, fuel - 1)
             ELSE Follow(f, child, rest, fuel)

Designates(f, p) == Follow(f, IF p.abs THEN <<>> ELSE Cwd, p.segs, MaxLinks)

\* a location has one of the roots as a component-wise prefix
Contained(dirs, loc) == \E i \in 1..Len(dirs) : IsPrefix(dirs[i], loc)

(***************************************************************************)
(* File contents and the OS calls of the handlers.                         *)
(*                                                                         *)
(* A file is kept with its bytes.  LF is the line feed, NUL the zero byte, *)
(* BAD a byte that is not valid UTF-8.                                     *)
(***************************************************************************)
LF == "LF"
NUL == "NUL"
BAD == "xFF"

\* the largest size read_file and read_multiple_files read in one piece
\* (Config::max_read_size, 10 MiB by default)
MaxReadSize == 3

\* the width of usize and u64
WordBits == 4

Node(kind, target, data) == [kind |-> kind, target |-> target, data |-> data]

NoEntry == Node("none", <<>>, <<>>)
Folder == Node("dir", <<>>, <<>>)
Regular(data) == Node("file", <<>>, data)
LinkTo(t) == Node("link", t, <<>>)

\* the locations the handlers can come to: two levels below /ws and /ws2
Below == {"a", "b", "l"}

Places ==
    {<<r>> : r \in {"ws", "ws2"}}
    \cup {<<r, n>> : r \in {"ws", "ws2"}, n \in Below}
    \cup {<<r, n, m>> : r \in {"ws", "ws2"}, n \in Below, m \in Below}

\* the entry a path names, its last component not followed (lstat, unlink,
\* rmdir, rename, mkdir): the directory above it has to be there
EntryLoc(f, p) ==
    LET d == Walk(f, IF p.abs THEN <<>> ELSE Cwd, Front(p.segs), MaxLinks)
    IN  IF p.segs = <<>> THEN [ok |-> p.abs, at |-> <<>>]
        ELSE IF ~d.ok \/ Lookup(f, d.at).kind # "dir" THEN Failed
        ELSE [ok |-> TRUE, at |-> Append(d.at, p.segs[Len(p.segs)])]

\* the entries of a directory
Entries(f, dir) ==
    {c \in DOMAIN f : Len(c) = Len(dir) + 1 /\ IsPrefix(dir, c) /\ f[c].kind # "none"}

IoOk(f) == [ok |-> TRUE, fs |-> f]
IoErr(f) == [ok |-> FALSE, fs |-> f]

\* tokio::fs::metadata: the size of what the path leads to
metadata(f, p) ==
    LET r == Resolve(f, p)
    IN  IF r.ok /\ r.at \in DOMAIN f
        THEN [ok |-> TRUE, kind |-> f[r.at].kind, len |-> Len(f[r.at].data)]
        ELSE [ok |-> r.ok, kind |-> "dir", len |-> 0]

\* tokio::fs::symlink_metadata
symlink_metadata(f, p) ==
    LET e == EntryLoc(f, p)
    IN  [ok |-> e.ok /\ Lookup(f, e.at).kind # "none", kind |-> Lookup(f, e.at).kind]

\* tokio::fs::read: the bytes of the file the path leads to
read(f, p) ==
    LET r == Resolve(f, p)
    IN  IF r.ok /\ KindAt(f, r) = "file" THEN [ok |-> TRUE, data |-> f[r.at].data]
        ELSE [ok |-> FALSE, data |-> <<>>]

\* tokio::fs::read_to_string: the bytes have to be UTF-8
read_to_string(f, p) ==
    IF BAD \in Range(read(f, p).data) THEN [ok |-> FALSE, data |-> <<>>]
    ELSE read(f, p)

\* tokio::fs::write: the file the path leads to is truncated and written; a
\* path that leads to nothing creates the file where it would be, a link at
\* its end followed
write(f, p, data) ==
    LET r == Resolve(f, p)
        loc == Designates(f, p)
    IN  IF r.ok THEN
            IF KindAt(f, r) = "file" THEN IoOk([f EXCEPT ![r.at] = Regular(data)])
            ELSE IoErr(f)
        ELSE IF \/ p.trail
                \/ loc \notin DOMAIN f
                \/ f[loc].kind # "none"
                \/ Lookup(f, Front(loc)).kind # "dir"
        THEN IoErr(f)
        ELSE IoOk([f EXCEPT ![loc] = Regular(data)])

\* tokio::fs::remove_file: unlink removes a file or a link, never a directory
remove_file(f, p) ==
    LET e == EntryLoc(f, p)
    IN  IF e.ok /\ Lookup(f, e.at).kind \in {"file", "link"}
        THEN IoOk([f EXCEPT ![e.at] = NoEntry])
        ELSE IoErr(f)

\* tokio::fs::remove_dir: rmdir removes an empty directory
remove_dir(f, p) ==
    LET e == EntryLoc(f, p)
    IN  IF e.ok /\ e.at \in DOMAIN f /\ f[e.at].kind = "dir" /\ Entries(f, e.at) = {}
        THEN IoOk([f EXCEPT ![e.at] = NoEntry])
        ELSE IoErr(f)

\* the tree below s is now below d
Moved(f, s, d) ==
    [c \in DOMAIN f |->
        IF IsPrefix(d, c) THEN
            IF s \o SubSeq(c, Len(d) + 1, Len(c)) \in DOMAIN f
            THEN f[s \o SubSeq(c, Len(d) + 1, Len(c))]
            ELSE NoEntry
        ELSE IF IsPrefix(s, c) THEN NoEntry
        ELSE f[c]]

\* rename(2), given the entries s and d the two paths name: a directory
\* replaces an empty directory only, anything else replaces anything but a
\* directory, and nothing moves below itself
RenameEntries(f, s, d) ==
    IF ~s.ok \/ ~d.ok \/ s.at \notin DOMAIN f \/ d.at \notin DOMAIN f THEN IoErr(f)
    ELSE IF f[s.at].kind = "none" THEN IoErr(f)
    ELSE IF s.at = d.at THEN IoOk(f)
    ELSE IF f[s.at].kind = "dir" /\ IsPrefix(s.at, d.at) THEN IoErr(f)
    ELSE IF f[d.at].kind = "none" THEN IoOk(Moved(f, s.at, d.at))
    ELSE IF f[s.at].kind = "dir"
    THEN IF f[d.at].kind = "dir" /\ Entries(f, d.at) = {}
         THEN IoOk(Moved(f, s.at, d.at))
         ELSE IoErr(f)
    ELSE IF f[d.at].kind = "dir" THEN IoErr(f)
    ELSE IoOk(Moved(f, s.at, d.at))

\* tokio::fs::rename
rename(f, from, to) == RenameEntries(f, EntryLoc(f, from), EntryLoc(f, to))

\* mkdir(2): NotFound when the directory above is missing
mkdir(f, p) ==
    LET e == EntryLoc(f, p)
    IN  IF ~e.ok \/ e.at \notin DOMAIN f THEN [err |-> "NotFound", fs |-> f]
        ELSE IF f[e.at].kind # "none" THEN [err |-> "AlreadyExists", fs |-> f]
        ELSE [err |-> "", fs |-> [f EXCEPT ![e.at] = Folder]]

\* the second mkdir of create_dir_all, after the directories above were made
MkdirAgain(up, p, m) ==
    IF m.err = "" THEN IoOk(m.fs)
    ELSE IF is_dir(up.fs, p) THEN IoOk(up.fs)
    ELSE IoErr(up.fs)

RECURSIVE create_dir_all(_, _)
\* the rest of create_dir_all, given m = mkdir(path)
AfterMkdir(f, p, m) ==
    IF m.err = "" THEN IoOk(m.fs)
    ELSE IF m.err # "NotFound" THEN (IF is_dir(f, p) THEN IoOk(f) ELSE IoErr(f))
    ELSE IF ~HasParent(p) THEN IoErr(f)
    ELSE LET up == create_dir_all(f, Parent(p))
         IN  IF ~up.ok THEN up ELSE MkdirAgain(up, p, mkdir(up.fs, p))

\* tokio::fs::create_dir_all (std::fs::DirBuilder with recursive(true))
create_dir_all(f, p) ==
    IF p.segs = <<>> THEN IoOk(f) ELSE AfterMkdir(f, p, mkdir(f, p))

(***************************************************************************)
(* Text.                                                                   *)
(***************************************************************************)
\* the pattern stands at position i of the text
MatchesAt(s, pat, i) ==
    i + Len(pat) - 1 <= Len(s) /\ SubSeq(s, i, i + Len(pat) - 1) = pat

\* the first position from `from` on where the pattern stands, 0 for none
FirstMatch(s, pat, from) ==
    IF \E i \in from..(Len(s) + 1) : MatchesAt(s, pat, i)
    THEN CHOOSE i \in from..(Len(s) + 1) :
             MatchesAt(s, pat, i) /\ \A j \in from..(i - 1) : ~MatchesAt(s, pat, j)
    ELSE 0

RECURSIVE MatchCount(_, _, _)
\* str::matches(pat).count(): the search goes on behind the match it found,
\* so matches never overlap (the empty pattern matches at every boundary)
MatchCount(s, pat, from) ==
    IF FirstMatch(s, pat, from) = 0 THEN 0
    ELSE 1 + MatchCount(s, pat,
                 FirstMatch(s, pat, from) + (IF pat = <<>> THEN 1 ELSE Len(pat)))

\* str::replacen(old, new, 1)
replacen(s, old, new) ==
    IF FirstMatch(s, old, 1) = 0 THEN s
    ELSE SubSeq(s, 1, FirstMatch(s, old, 1) - 1) \o new
         \o SubSeq(s, FirstMatch(s, old, 1) + Len(old), Len(s))

\* String::from_utf8_lossy: an invalid byte becomes U+FFFD
from_utf8_lossy(data) ==
    [i \in 1..Len(data) |-> IF data[i] = BAD THEN "U+FFFD" ELSE data[i]]

RECURSIVE lines(_)
\* str::lines: split at every line feed, no last empty line after a final one
lines(text) ==
    IF text = <<>> THEN <<>>
    ELSE IF LF \notin Range(text) THEN <<text>>
    ELSE LET k == CHOOSE i \in 1..Len(text) :
                      text[i] = LF /\ \A j \in 1..(i - 1) : text[j] # LF
         IN  <<SubSeq(text, 1, k - 1)>> \o lines(SubSeq(text, k + 1, Len(text)))

(***************************************************************************)
(* The service and its handlers.  A handler hands back its answer and the  *)
(* filesystem it leaves.                                                   *)
(***************************************************************************)
\* read.rs, line 10
BINARY_CHECK_SIZE == 8192

\* Config::validate turns a configuration into the one the service gets
ConfigValidateKeeping(cfg) == cfg

\* Config::validate, lines 34-36 (the allowed directories are AllowedDirSets)
ConfigValidate(cfg) ==
    IF cfg.allow_destructive THEN [cfg EXCEPT !.allow_write = TRUE] ELSE cfg

list_tools_router == {"list_allowed_directories", "list_directory"}
read_tools_router == {"read_file", "read_multiple_files"}
info_tools_router == {"get_file_info", "directory_tree"}
search_tools_router == {"search_files"}
write_tools_router == {"edit_file", "write_file", "create_directory"}
destructive_tools_router == {"delete_file", "move_file", "delete_directory"}

\* FilesystemService::new: the tools the service answers to
tool_router(cfg) ==
    list_tools_router \cup read_tools_router \cup info_tools_router
    \cup search_tools_router
    \cup (IF cfg.allow_write THEN write_tools_router ELSE {})
    \cup (IF cfg.allow_destructive THEN destructive_tools_router ELSE {})

Reply(ok, error, out) == [ok |-> ok, error |-> error, out |-> out]

Failure(error) == Reply(FALSE, error, <<>>)

Done(result, f) == [result |-> result, fs |-> f]

\* the first BINARY_CHECK_SIZE bytes hold a zero byte
IsBinary(content) ==
    NUL \in Range(SubSeq(content, 1,
                IF Len(content) < BINARY_CHECK_SIZE THEN Len(content)
                ELSE BINARY_CHECK_SIZE))

\* read_file, lines 103-116: &lines[offset..end] panics when offset > end
Selected(canonical, ls, offset, end) ==
    IF offset > end THEN Failure("Panic")
    ELSE Reply(TRUE, "", [path |-> canonical, first |-> offset + 1, last |-> end,
                          total |-> Len(ls), lines |-> SubSeq(ls, offset + 1, end)])

\* read_file, lines 82-106, given the lines of the file; offset + l is a
\* usize addition: it panics in a build with overflow checks and wraps in
\* one without
ReadLines(canonical, ls, offset, limit, checked) ==
    IF ls = <<>> THEN
        Reply(TRUE, "", [path |-> canonical, first |-> 0, last |-> 0,
                         total |-> 0, lines |-> <<>>])
    ELSE IF (IF offset.some THEN offset.v ELSE 0) >= Len(ls)
    THEN Failure("OffsetBeyondEnd")
    ELSE IF ~limit.some
    THEN Selected(canonical, ls, IF offset.some THEN offset.v ELSE 0, Len(ls))
    ELSE IF checked /\ (IF offset.some THEN offset.v ELSE 0) + limit.v >= 2^WordBits
    THEN Failure("Panic")
    ELSE Selected(canonical, ls, IF offset.some THEN offset.v ELSE 0,
             IF ((IF offset.some THEN offset.v ELSE 0) + limit.v) % 2^WordBits < Len(ls)
             THEN ((IF offset.some THEN offset.v ELSE 0) + limit.v) % 2^WordBits
             ELSE Len(ls))

\* read_file, lines 51-80, given v = self.security.validate_file(path)
ReadFrom(f, cfg, offset, limit, checked, v) ==
    IF v.kind # "Ok" THEN Failure(v.kind)
    ELSE IF ~metadata(f, v.path).ok THEN Failure("Io")
    ELSE IF ~(offset.some \/ limit.some) /\ metadata(f, v.path).len > cfg.max_read_size
    THEN Failure("FileTooLarge")
    ELSE IF ~read(f, v.path).ok THEN Failure("Io")
    ELSE IF IsBinary(read(f, v.path).data) THEN Failure("BinaryFile")
    ELSE ReadLines(v.path, lines(from_utf8_lossy(read(f, v.path).data)),
                   offset, limit, checked)

read_file(f, dirs, cfg, path, offset, limit, checked) ==
    Done(ReadFrom(f, cfg, offset, limit, checked, validate_file(f, dirs, path)), f)

\* "=== {file_path} ===\nError: {err}" and
\* "=== {canonical} ({total_lines} lines, {size}) ===\n{text}"
Section(file_path, error, canonical, total_lines, text) ==
    [file_path |-> file_path, error |-> error, canonical |-> canonical,
     total_lines |-> total_lines, text |-> text]

\* read_multiple_files, lines 135-179, given v = self.security.validate_file(path)
SectionFrom(f, cfg, file_path, v) ==
    IF v.kind # "Ok" THEN Section(file_path, v.kind, file_path, 0, <<>>)
    ELSE IF ~metadata(f, v.path).ok THEN Section(file_path, "Io", file_path, 0, <<>>)
    ELSE IF metadata(f, v.path).len > cfg.max_read_size
    THEN Section(file_path, "FileTooLarge", file_path, 0, <<>>)
    ELSE IF ~read(f, v.path).ok THEN Section(file_path, "Io", file_path, 0, <<>>)
    ELSE IF IsBinary(read(f, v.path).data)
    THEN Section(file_path, "BinaryFile", file_path, 0, <<>>)
    ELSE Section(file_path, "", v.path,
                 Len(lines(from_utf8_lossy(read(f, v.path).data))),
                 from_utf8_lossy(read(f, v.path).data))

\* the first path that cannot be read fails the call
ReadMultipleFailing(f, dirs, cfg, paths) ==
    IF \E i \in 1..Len(paths) :
           SectionFrom(f, cfg, paths[i], validate_file(f, dirs, paths[i])).error # ""
    THEN Done(Failure("Io"), f)
    ELSE Done(Reply(TRUE, "", [i \in 1..Len(paths) |->
                 SectionFrom(f, cfg, paths[i], validate_file(f, dirs, paths[i]))]), f)

\* read_multiple_files, lines 129-186
read_multiple_files(f, dirs, cfg, paths) ==
    Done(Reply(TRUE, "", [i \in 1..Len(paths) |->
             SectionFrom(f, cfg, paths[i], validate_file(f, dirs, paths[i]))]), f)

\* get_file_info, lines 46-92, given v = self.security.validate_path_exists(path):
\* the type of the entry itself
InfoFrom(f, v) ==
    IF v.kind # "Ok" THEN Failure(v.kind)
    ELSE IF ~symlink_metadata(f, v.path).ok THEN Failure("Io")
    ELSE Reply(TRUE, "", [path |-> v.path, type |-> symlink_metadata(f, v.path).kind])

get_file_info(f, dirs, path) == Done(InfoFrom(f, validate_path_exists(f, dirs, path)), f)

\* after an OS call that changes the filesystem
AfterIo(io, out) ==
    IF io.ok THEN Done(Reply(TRUE, "", out), io.fs) ELSE Done(Failure("Io"), io.fs)

RECURSIVE ApplyEdits(_, _, _)
\* edit_file, lines 68-92: the edits one after the other, i the next one
ApplyEdits(content, edits, i) ==
    IF i > Len(edits) THEN [ok |-> TRUE, content |-> content]
    ELSE IF MatchCount(content, edits[i].old_text, 1) # 1
    THEN [ok |-> FALSE, content |-> content]
    ELSE ApplyEdits(replacen(content, edits[i].old_text, edits[i].new_text), edits, i + 1)

\* edit_file, lines 94-109, given the outcome of the loop
EditWrite(f, canonical, edits, e) ==
    IF ~e.ok THEN Done(Failure("EditFailed"), f)
    ELSE AfterIo(write(f, canonical, e.content),
                 [path |-> canonical, edits |-> Len(edits)])

\* edit_file, lines 57-66, given v = self.security.validate_file(path)
EditFrom(f, path, edits, v) ==
    IF v.kind # "Ok" THEN Done(Failure(v.kind), f)
    ELSE IF ~read_to_string(f, v.path).ok THEN Done(Failure("Io"), f)
    ELSE EditWrite(f, v.path, edits, ApplyEdits(read_to_string(f, v.path).data, edits, 1))

edit_file(f, dirs, path, edits) == EditFrom(f, path, edits, validate_file(f, dirs, path))

\* write_file, lines 123-138, given v = self.security.validate_path(path)
WriteFrom(f, content, v) ==
    IF v.kind # "Ok" THEN Done(Failure(v.kind), f)
    ELSE AfterIo(write(f, v.path, content), [path |-> v.path, size |-> Len(content)])

write_file(f, dirs, path, content) == WriteFrom(f, content, validate_path(f, dirs, path))

\* create_directory, lines 151-160, given
\* v = self.security.validate_creatable_path(path)
CreateFrom(f, v) ==
    IF v.kind # "Ok" THEN Done(Failure(v.kind), f)
    ELSE AfterIo(create_dir_all(f, v.path), [path |-> v.path])

create_directory(f, dirs, path) == CreateFrom(f, validate_creatable_path(f, dirs, path))

\* the entry the raw path names is removed
DeleteFromRaw(f, path, v) ==
    IF v.kind # "Ok" THEN Done(Failure(v.kind), f)
    ELSE AfterIo(remove_file(f, path), [path |-> v.path])

\* delete_file, lines 39-44, given v = self.security.validate_file(path)
DeleteFrom(f, path, v) ==
    IF v.kind # "Ok" THEN Done(Failure(v.kind), f)
    ELSE AfterIo(remove_file(f, v.path), [path |-> v.path])

delete_file(f, dirs, path) == DeleteFrom(f, path, validate_file(f, dirs, path))

\* delete_directory, lines 85-92, given v = self.security.validate_directory(path)
DeleteDirFrom(f, v) ==
    IF v.kind # "Ok" THEN Done(Failure(v.kind), f)
    ELSE AfterIo(remove_dir(f, v.path), [path |-> v.path])

delete_directory(f, dirs, path) == DeleteDirFrom(f, validate_directory(f, dirs, path))

\* move_file, lines 56-73, given vs = self.security.validate_path_exists(source)
\* and vd = self.security.validate_path(destination)
MoveFrom(f, vs, vd) ==
    IF vs.kind # "Ok" THEN Done(Failure(vs.kind), f)
    ELSE IF vd.kind # "Ok" THEN Done(Failure(vd.kind), f)
    ELSE AfterIo(rename(f, vs.path, vd.path), [source |-> vs.path, destination |-> vd.path])

move_file(f, dirs, source, destination) ==
    MoveFrom(f, validate_path_exists(f, dirs, source), validate_path(f, dirs, destination))

(***************************************************************************)
(* The state machine of the handlers: the service is built from a          *)
(* validated configuration and answers one request, which may change the   *)
(* filesystem, from any of the filesystems below.                          *)
(***************************************************************************)
\* the bytes of /ws/b: empty, one line, three lines, binary, not UTF-8, and
\* one byte more than max_read_size
Contents ==
    {<<>>, <<"a">>, <<"a", "a", "a">>, <<"a", LF, "b">>, <<LF, LF, LF>>,
     <<NUL>>, <<BAD>>, [i \in 1..(MaxReadSize + 1) |-> "a"]}

HandlerFileSystems ==
    {[c \in Places |->
        CASE c = WS \/ c = WS2 -> Folder
          [] c = WS2_A -> Regular(<<"a">>)
          [] c = WS_A -> a
          [] c = WS_A_B -> IF a = Folder THEN ab ELSE NoEntry
          [] c = WS_B -> b
          [] c = WS_L -> l
          [] OTHER -> NoEntry] :
     a \in {NoEntry, Regular(<<"a">>), Folder}, ab \in {NoEntry, Regular(<<"a">>)},
     b \in {NoEntry} \cup {Regular(d) : d \in Contents},
     l \in {NoEntry, LinkTo(WS2_A), LinkTo(WS_B), LinkTo(WS2_B), LinkTo(WS2)}}

\* what the command line can ask for
RawConfigs ==
    [max_depth : {MaxConfigDepth}, max_read_size : {MaxReadSize},
     allow_write : BOOLEAN, allow_destructive : BOOLEAN]

HandlerPaths ==
    {AbsPath(WS_A), AbsPath(WS_B), AbsPath(WS_A_B), AbsPath(WS_L),
     MkPath(TRUE, WS_L, TRUE), AbsPath(WS2_A), MkPath(FALSE, <<"b">>, FALSE)}

\* absent, 0, 1 and the largest value of the width
WordParams == {NoneParam, Some(0), Some(1), Some(2^WordBits - 1)}

EditOperation(old_text, new_text) == [old_text |-> old_text, new_text |-> new_text]

EditOperations ==
    {EditOperation(<<"a">>, <<"b">>), EditOperation(<<"a", "a">>, <<"b">>),
     EditOperation(<<"b">>, <<>>), EditOperation(<<"a">>, <<"a", "a">>)}

HandlersInit ==
    /\ fs \in HandlerFileSystems
    /\ allowed_dirs = <<WS>>
    /\ call = NoCall
    /\ config \in {ConfigValidate(c) : c \in RawConfigs}

\* the request, its answer and the filesystem the handler leaves
Handle(tool, path, args, done) ==
    /\ tool \in tool_router(config)
    /\ call' = [op |-> tool, path |-> path, args |-> args, result |-> done.result]
    /\ fs' = done.fs
    /\ UNCHANGED <<allowed_dirs, config>>

ReadFile ==
    Idle /\ \E p \in HandlerPaths, offset \in WordParams, limit \in WordParams,
               checked \in BOOLEAN :
        Handle("read_file", p, [offset |-> offset, limit |-> limit],
               read_file(fs, allowed_dirs, config, p, offset, limit, checked))

ReadMultipleFiles ==
    Idle /\ \E ps \in SeqsUpTo(HandlerPaths, 2) :
        Handle("read_multiple_files", AbsPath(<<>>), [paths |-> ps],
               read_multiple_files(fs, allowed_dirs, config, ps))

GetFileInfo ==
    Idle /\ \E p \in HandlerPaths :
        Handle("get_file_info", p, <<>>, get_file_info(fs, allowed_dirs, p))

EditFile ==
    Idle /\ \E p \in HandlerPaths, edits \in SeqsUpTo(EditOperations, 2) :
        Handle("edit_file", p, [edits |-> edits], edit_file(fs, allowed_dirs, p, edits))

WriteFile ==
    Idle /\ \E p \in HandlerPaths, content \in {<<>>, <<"b">>} :
        Handle("write_file", p, [content |-> content],
               write_file(fs, allowed_dirs, p, content))

CreateDirectory ==
    Idle /\ \E p \in HandlerPaths :
        Handle("create_directory", p, <<>>, create_directory(fs, allowed_dirs, p))

DeleteFile ==
    Idle /\ \E p \in HandlerPaths :
        Handle("delete_file", p, <<>>, delete_file(fs, allowed_dirs, p))

DeleteDirectory ==
    Idle /\ \E p \in HandlerPaths :
        Handle("delete_directory", p, <<>>, delete_directory(fs, allowed_dirs, p))

MoveFile ==
    Idle /\ \E p \in HandlerPaths, d \in HandlerPaths :
        Handle("move_file", p, [destination |-> d], move_file(fs, allowed_dirs, p, d))

HandlersNext ==
    \/ ReadFile
    \/ ReadMultipleFiles
    \/ GetFileInfo
    \/ EditFile
    \/ WriteFile
    \/ CreateDirectory
    \/ DeleteFile
    \/ DeleteDirectory
    \/ MoveFile

Handlers == HandlersInit /\ [][HandlersNext]_vars

(***************************************************************************)
(* Two edit_file requests in flight.  The handler is an async fn: the      *)
(* runtime may switch to the other request at each .await, which is where  *)
(* the read and the write are; the write itself opens the file with        *)
(* truncation and then stores the bytes.  call holds the two requests.     *)
(***************************************************************************)
Tasks == {1, 2}

\* a request and how far its handler has come
Task(pc, path, edits, canonical, original, content, result) ==
    [pc |-> pc, path |-> path, edits |-> edits, canonical |-> canonical,
     original |-> original, content |-> content, result |-> result]

Finished(t, result) == [t EXCEPT !.pc = "done", !.result = result]

\* edit_file, lines 56-60, given v = self.security.validate_file(path)
Validated(t, v) ==
    IF v.kind # "Ok" THEN Finished(t, Failure(v.kind))
    ELSE [t EXCEPT !.pc = "read", !.canonical = v.path]

\* edit_file, lines 62-92, given r = read_to_string(canonical) and the outcome
\* of the loop over the edits
Edited(t, r, e) ==
    IF ~r.ok THEN Finished(t, Failure("Io"))
    ELSE IF ~e.ok THEN Finished(t, Failure("EditFailed"))
    ELSE [t EXCEPT !.pc = "write", !.original = r.data, !.content = e.content]

\* edit_file, lines 94-109, given the outcome of the write
Written(t, io) ==
    IF ~io.ok THEN Finished(t, Failure("Io"))
    ELSE Finished(t, Reply(TRUE, "", [path |-> t.canonical, edits |-> Len(t.edits)]))

ConcurrentInit ==
    /\ fs \in {f \in HandlerFileSystems :
                  /\ f[WS_A] = NoEntry
                  /\ f[WS_B].kind = "file"
                  /\ f[WS_L] \in {NoEntry, LinkTo(WS_B)}}
    /\ allowed_dirs = <<WS>>
    /\ config = ConfigValidate([max_depth |-> MaxConfigDepth,
                                max_read_size |-> MaxReadSize,
                                allow_write |-> TRUE, allow_destructive |-> FALSE])
    /\ call \in [Tasks -> {Task("validate", p, <<e>>, p, <<>>, <<>>, Failure("")) :
                              p \in {AbsPath(WS_B), AbsPath(WS_L)},
                              e \in EditOperations}]

Advance(t, task, f) ==
    /\ call' = [call EXCEPT ![t] = task]
    /\ fs' = f
    /\ UNCHANGED <<allowed_dirs, config>>

EditValidate ==
    \E t \in Tasks :
        /\ call[t].pc = "validate"
        /\ Advance(t, Validated(call[t], validate_file(fs, allowed_dirs, call[t].path)), fs)

EditRead ==
    \E t \in Tasks :
        /\ call[t].pc = "read"
        /\ Advance(t, Edited(call[t], read_to_string(fs, call[t].canonical),
                             ApplyEdits(read_to_string(fs, call[t].canonical).data,
                                        call[t].edits, 1)), fs)

\* OpenOptions::truncate(true).open of std::fs::write
EditTruncate ==
    \E t \in Tasks :
        /\ call[t].pc = "write"
        /\ IF write(fs, call[t].canonical, <<>>).ok
           THEN Advance(t, [call[t] EXCEPT !.pc = "store"],
                        write(fs, call[t].canonical, <<>>).fs)
           ELSE Advance(t, Written(call[t], IoErr(fs)), fs)

\* write_all of std::fs::write, and the answer
EditStore ==
    \E t \in Tasks :
        /\ call[t].pc = "store"
        /\ Advance(t, Written(call[t], write(fs, call[t].canonical, call[t].content)),
                   write(fs, call[t].canonical, call[t].content).fs)

ConcurrentNext ==
    \/ EditValidate
    \/ EditRead
    \/ EditTruncate
    \/ EditStore

Concurrent == ConcurrentInit /\ [][ConcurrentNext]_vars

(***************************************************************************)
(* The loops, a turn at a time.  The upward walk of                         *)
(* validate_creatable_path, the stack loop of search_files and the          *)
(* recursion of build_tree_sync are run on a filesystem that stays as it    *)
(* is: call holds the request, the state of its loop, the directories read  *)
(* so far in the order they were read, and whether it has returned.         *)
(***************************************************************************)
\* a walk that looks at the same candidate again
WalkUpStepStaying(f, w) ==
    IF exists(f, w.existing) THEN [w EXCEPT !.end = "found"]
    ELSE IF ~HasParent(w.existing) THEN [w EXCEPT !.end = "NotFound"]
    ELSE IF ~HasFileName(w.existing) THEN [w EXCEPT !.end = "PathDenied"]
    ELSE w

\* security.rs 90-111, one turn of the loop: the candidate exists, or the
\* walk gives up, or it moves to the parent
WalkUpStep(f, w) ==
    IF exists(f, w.existing) THEN [w EXCEPT !.end = "found"]
    ELSE IF ~HasParent(w.existing) THEN [w EXCEPT !.end = "NotFound"]
    ELSE IF ~HasFileName(w.existing) THEN [w EXCEPT !.end = "PathDenied"]
    ELSE [w EXCEPT !.existing = Parent(@),
                   !.tail = Append(@, FileName(w.existing))]

\* info.rs 128: a call of build_tree_sync that has not read its directory
TreeCall(dir, prefix, current_depth) ==
    [dir |-> dir, prefix |-> prefix, current_depth |-> current_depth,
     read |-> FALSE, dirs |-> <<>>, files |-> <<>>, i |-> 1]

\* the calls in progress (the innermost last), the output and the counter
TreeWalk(frames, acc, done) == [frames |-> frames, acc |-> acc, done |-> done]

\* info.rs 198-208: a call hands acc back to its callers, the innermost
\* last; `?` hands an error on, and a counter above the ceiling makes every
\* caller return in its turn
Returned(frames, acc) ==
    IF frames = <<>> THEN TreeWalk(<<>>, acc, TRUE)
    ELSE IF acc.err \/ acc.count > MAX_TREE_ENTRIES THEN TreeWalk(<<>>, acc, TRUE)
    ELSE TreeWalk([frames EXCEPT ![Len(frames)].i = @ + 1], acc, FALSE)

\* info.rs 165-178: the directory has been read
Entered(rest, top, dirs, files, acc) ==
    IF Len(dirs) + Len(files) = 0 THEN Returned(rest, acc)
    ELSE TreeWalk(Append(rest, [top EXCEPT !.read = TRUE, !.dirs = dirs,
                                           !.files = files]), acc, FALSE)

\* info.rs 180-211: the next directory of the level of the call top
Descend(rest, top, max_depth, acc, last, child) ==
    IF acc.count + 1 > MAX_TREE_ENTRIES
    THEN Returned(rest, Truncate(acc, top.prefix, top.dir))
    ELSE IF top.current_depth < max_depth
    THEN TreeWalk(Append(Append(rest, top),
                         TreeCall(child, Append(top.prefix, last),
                                  top.current_depth + 1)),
                  Emit(acc, Line("dir", top.prefix, last, top.dirs[top.i], child)),
                  FALSE)
    ELSE TreeWalk(Append(rest, [top EXCEPT !.i = @ + 1]),
                  Emit(acc, Line("dir", top.prefix, last, top.dirs[top.i], child)),
                  FALSE)

\* info.rs 128-233, one step of the innermost call: it reads its directory,
\* or takes the next directory of its level, or lists the files and returns
TreeStepOf(f, max_depth, rest, top, acc) ==
    IF ~top.read
    THEN IF ~CanReadDir(f, top.dir)
         THEN TreeWalk(<<>>, TreeErr([acc EXCEPT !.opened = @ \cup {top.dir}]), TRUE)
         ELSE Entered(rest, top, SortBy(VisibleDirs(f, top.dir), NameKey),
                      SortBy(VisibleFiles(f, top.dir), NameKey),
                      [acc EXCEPT !.opened = @ \cup {top.dir}])
    ELSE IF top.i > Len(top.dirs)
    THEN Returned(rest, FileLoop(top.dir, top.prefix, top.dirs, top.files, 1, acc))
    ELSE Descend(rest, top, max_depth, acc,
                 top.i = Len(top.dirs) + Len(top.files),
                 Append(top.dir, top.dirs[top.i]))

TreeStep(f, max_depth, t) ==
    TreeStepOf(f, max_depth, Front(t.frames), t.frames[Len(t.frames)], t.acc)

\* usize::MAX
Unlimited == 2 ^ WordBits - 1

\* --max-depth is any usize
WalkConfigs == Configs \cup {[max_depth |-> Unlimited]}

WalkDepthParams == {NoneParam, Some(0), Some(Unlimited)}

\* raw paths handed to validate_creatable_path: absolute, relative, empty,
\* with a dot, through the link, with missing segments
WalkPaths ==
    {AbsPath(<<>>), MkPath(FALSE, <<>>, FALSE), MkPath(FALSE, <<"a">>, FALSE),
     MkPath(FALSE, <<"b", "b">>, TRUE), AbsPath(WS), AbsPath(<<"ws", "b", "b">>),
     AbsPath(<<"ws", "a", "b", "b">>), AbsPath(<<"ws", "l", "b">>),
     AbsPath(<<"ws2", "b", "b">>), AbsPath(<<"b", "b", "b">>),
     AbsPath(<<"ws", "..", "b">>)}

WalkingInit ==
    /\ fs \in {f \in Trees : TreeConsistent(f)}
    /\ allowed_dirs = <<WS>>
    /\ call = NoCall
    /\ config \in WalkConfigs

Walking(op, path, max_depth, q, w, visits, done) ==
    /\ call' = [op |-> op, path |-> path, max_depth |-> max_depth, q |-> q,
                w |-> w, visits |-> visits, done |-> done]
    /\ UNCHANGED <<fs, allowed_dirs, config>>

Running(op) == call.op = op /\ ~call.done

\* security.rs 76-91: the scan for dots, then the walk starts at the path
CreatableStart ==
    Idle /\ \E p \in WalkPaths :
        Walking("validate_creatable_path", p, 0, <<>>,
                [end |-> "walking", existing |-> p, tail |-> <<>>], <<>>,
                HasDotComponent(p))

CreatableStepTo(w) ==
    Walking(call.op, call.path, 0, <<>>, w, <<>>, w.end # "walking")

CreatableStep ==
    /\ Running("validate_creatable_path")
    /\ CreatableStepTo(WalkUpStep(fs, call.w))

\* search.rs 35-48
SearchStartAt(p, g, ord, v) ==
    Walking("search_files", p, config.max_depth,
            [canonical |-> v.path.segs, pattern |-> g,
             max_results |-> MaxResults(NoneParam),
             max_depth |-> config.max_depth, ord |-> ord],
            Walked(IF v.kind = "Ok" THEN <<[dir |-> v.path.segs, depth |-> 0]>>
                   ELSE <<>>, <<>>, {}, FALSE),
            <<>>, v.kind # "Ok")

SearchStart ==
    Idle /\ \E p \in StartPaths, g \in {"*", "b"}, ord \in ReadDirOrders :
        SearchStartAt(p, g, ord, validate_directory(fs, allowed_dirs, p))

SearchStepTo(w) ==
    Walking(call.op, call.path, call.max_depth, call.q, w,
            Append(call.visits, call.w.stack[Len(call.w.stack)].dir),
            w.stack = <<>> \/ w.truncated)

\* search.rs 50-95: the directory on top of the stack
SearchStep ==
    /\ Running("search_files")
    /\ SearchStepTo(Turn(fs, call.q, call.w))

\* info.rs 105-118
TreeStartAt(p, d, v) ==
    Walking("directory_tree", p, EffectiveDepth(config, d), <<>>,
            TreeWalk(IF v.kind = "Ok" THEN <<TreeCall(v.path.segs, <<>>, 0)>>
                     ELSE <<>>,
                     [err |-> FALSE, output |-> <<>>, count |-> 0, opened |-> {}],
                     v.kind # "Ok"),
            <<>>, v.kind # "Ok")

TreeStart ==
    Idle /\ \E p \in StartPaths, d \in WalkDepthParams :
        TreeStartAt(p, d, validate_directory(fs, allowed_dirs, p))

TreeStepTo(top, t) ==
    Walking(call.op, call.path, call.max_depth, <<>>, t,
            IF top.read THEN call.visits ELSE Append(call.visits, top.dir),
            t.done)

TreeStepAction ==
    /\ Running("directory_tree")
    /\ TreeStepTo(call.w.frames[Len(call.w.frames)],
                  TreeStep(fs, call.max_depth, call.w))

WalkingNext ==
    \/ CreatableStart
    \/ CreatableStep
    \/ SearchStart
    \/ SearchStep
    \/ TreeStart
    \/ TreeStepAction

\* the call has returned
Stopped == call # NoCall /\ call.done

\* the request in flight is served by a task of the runtime, which runs it
\* whenever it can go on: weak fairness of WalkingNext, which is enabled
\* exactly when the call has not returned
Walks ==
    /\ WalkingInit
    /\ [][WalkingNext]_vars
    /\ ([]<>Stopped \/ []<><<WalkingNext>>_vars)

Called == call.op \in Validators

Accepted == Called /\ call.result.kind = "Ok"

(***************************************************************************)
(* C1.  Sandbox containment: whenever a validator returns Ok(p), the       *)
(* location p designates after OS-level symlink resolution lies under one  *)
(* of the sandbox roots.  The code breaks it: a path that cannot be        *)
(* canonicalized because its last segment is a dangling symbolic link (or  *)
(* a link to a file, written with a trailing separator) is accepted on the *)
(* strength of its parent and returned with the link still in it.          *)
(***************************************************************************)
C1_SandboxContainment ==
    Accepted => Contained(allowed_dirs, Designates(fs, call.result.path))

(***************************************************************************)
(* C2.  A raw path whose canonical form has no root as a prefix is answered*)
(* with PathDenied by every validator, never with NotFound, NotAFile,      *)
(* NotADirectory or success, whether or not it or its parent exists.       *)
(***************************************************************************)
C2_OutsideIsPathDenied ==
    (Called /\ ~Contained(allowed_dirs, Designates(fs, call.path)))
        => call.result.kind = "PathDenied"

(***************************************************************************)
(* C3.  A symbolic link inside a root whose target lies outside all roots  *)
(* is denied: every validator applied to the link, or to a path through    *)
(* it, returns PathDenied.                                                 *)
(***************************************************************************)
\* /ws/l is a symbolic link and its target lies outside every root
LinkLeavesSandbox ==
    /\ fs[WS_L].kind = "link"
    /\ Contained(allowed_dirs, WS_L)
    /\ ~Contained(allowed_dirs, fs[WS_L].target)

\* the raw path names the link or passes through it
ThroughLink(p) == p.abs /\ IsPrefix(WS_L, p.segs)

C3_EscapingLinkDenied ==
    (Called /\ LinkLeavesSandbox /\ ThroughLink(call.path))
        => call.result.kind = "PathDenied"

(***************************************************************************)
(* C4.  Containment is decided component-wise, not by string prefix: an    *)
(* accepted path has the component sequence of a root as a prefix of its   *)
(* own, and the sibling /ws2 of the root /ws (and /ws2/x), whose string    *)
(* merely extends the root's, is rejected with PathDenied by every         *)
(* validator.                                                              *)
(***************************************************************************)
\* /ws2 or /ws2/x, with or without trailing separator
SiblingPath(p) ==
    /\ p.abs
    /\ Len(p.segs) \in {1, 2}
    /\ p.segs[1] = "ws2"
    /\ \A i \in 1..Len(p.segs) : p.segs[i] \in Names

C4_ComponentWise ==
    /\ Accepted => Contained(allowed_dirs, call.result.path.segs)
    /\ (Called /\ SiblingPath(call.path) /\ ~Contained(allowed_dirs, WS2))
           => call.result.kind = "PathDenied"

\* a new entry of the sibling, whose string starts with the string of the
\* root, is denied
C4_Witness ==
    /\ call.op = "validate_creatable_path"
    /\ allowed_dirs = <<WS>>
    /\ call.path = AbsPath(WS2_B)
    /\ StringStartsWith(call.path, AbsPath(WS))
    /\ call.result.kind = "PathDenied"

(***************************************************************************)
(* C5.  validate_creatable_path returns PathDenied for every raw path that *)
(* contains a literal "." or ".." segment, whatever its position.  The     *)
(* code scans Path::components, which drops every "." but a leading one,   *)
(* so "/ws/./b" passes the scan and is accepted.                           *)
(***************************************************************************)
C5_DotSegmentsDenied ==
    (call.op = "validate_creatable_path"
        /\ \E i \in 1..Len(call.path.segs) : call.path.segs[i] \in {".", ".."})
        => call.result.kind = "PathDenied"

(***************************************************************************)
(* C6.  Resolution is idempotent: if a validator returns Ok(c) for a path, *)
(* it returns Ok(c) for c.                                                 *)
(***************************************************************************)
C6_Idempotent ==
    Accepted => Apply(call.op, fs, allowed_dirs, call.result.path) = call.result

(***************************************************************************)
(* C7.  A trailing separator never changes the outcome: the same canonical *)
(* path on success, the same kind of rejection on failure.                 *)
(***************************************************************************)
WithoutSeparator(p) == [p EXCEPT !.trail = FALSE]

SameOutcome(r1, r2) == r1.kind = r2.kind /\ (r1.kind = "Ok" => r1.path = r2.path)

C7_TrailingSeparator ==
    (Called /\ call.path.trail)
        => SameOutcome(call.result,
                       Apply(call.op, fs, allowed_dirs, WithoutSeparator(call.path)))

(***************************************************************************)
(* C8.  Every existing path whose canonical form is a root or lies under   *)
(* one is accepted by validate_path_exists with its canonical form, and a  *)
(* path that is itself a root is accepted by validate_path,                *)
(* validate_path_exists, validate_directory and validate_creatable_path.   *)
(***************************************************************************)
RootValidators ==
    {"validate_path", "validate_path_exists", "validate_directory",
     "validate_creatable_path"}

\* the raw path exists and resolves to a location under a root
ExistsInside(f, dirs, r) == r.ok /\ Contained(dirs, r.at)

C8_ExistingInsideAccepted ==
    /\ (call.op = "validate_path_exists"
            /\ ExistsInside(fs, allowed_dirs, Resolve(fs, call.path)))
           => call.result = Ok(AbsPath(Resolve(fs, call.path).at))
    /\ (call.op \in RootValidators
            /\ \E i \in 1..Len(allowed_dirs) : call.path = AbsPath(allowed_dirs[i]))
           => call.result = Ok(call.path)

\* a link in the root to an entry of the root is accepted as that entry,
\* with a second root listed before the one that holds it
C8_Witness ==
    /\ call.op = "validate_path_exists"
    /\ allowed_dirs = <<WS2, WS>>
    /\ call.path = AbsPath(WS_L)
    /\ call.result = Ok(AbsPath(WS_A))

(***************************************************************************)
(* C9.  Parent-only strategy of validate_path.  As claimed: when the       *)
(* target does not exist the result is Ok(canonical(parent) joined with    *)
(* the final segment) if the parent exists and the joined path is          *)
(* contained, PathDenied if the parent exists and it is not contained, and *)
(* NotFound if the parent does not exist.                                  *)
(***************************************************************************)
\* canonical(parent) joined with the last component of the raw path
Joined(f, path) == AbsPath(Append(Resolve(f, Parent(path)).at, FileName(path)))

ParentOnly(dirs, joined, result) ==
    IF Contained(dirs, joined.segs) THEN result = Ok(joined)
    ELSE result.kind = "PathDenied"

C9_ParentOnlyAsClaimed ==
    (call.op = "validate_path" /\ ~exists(fs, call.path))
        => IF HasParent(call.path) /\ exists(fs, Parent(call.path))
           THEN ParentOnly(allowed_dirs, Joined(fs, call.path), call.result)
           ELSE call.result.kind = "NotFound"

(***************************************************************************)
(* C9, amended.  The strategy applies to raw paths that end in a normal    *)
(* file-name segment, and the parent is the lexical one (the raw path      *)
(* without that segment; for a bare relative name it is the empty path,    *)
(* which never canonicalizes): Ok(canonical(parent) joined with the        *)
(* segment) if the parent canonicalizes and the joined path is contained,  *)
(* PathDenied if it canonicalizes and the joined path is not contained,    *)
(* NotFound if the parent does not canonicalize.  A path that cannot be    *)
(* canonicalized and ends in ".." (or is empty) is answered PathDenied.    *)
(***************************************************************************)
C9_ParentOnly ==
    (call.op = "validate_path" /\ ~exists(fs, call.path))
        => IF ~HasFileName(call.path) THEN call.result.kind = "PathDenied"
           ELSE IF ~exists(fs, Parent(call.path)) THEN call.result.kind = "NotFound"
           ELSE ParentOnly(allowed_dirs, Joined(fs, call.path), call.result)

\* /ws/b/a with /ws/b missing: NotFound, although /ws exists
C9_Witness ==
    /\ call.op = "validate_path"
    /\ call.path = AbsPath(<<"ws", "b", "a">>)
    /\ exists(fs, AbsPath(WS))
    /\ ~exists(fs, AbsPath(WS_B))
    /\ call.result.kind = "NotFound"

(***************************************************************************)
(* C10.  On success validate_creatable_path returns canonical(A) followed  *)
(* by the tail in its original order, A being the nearest ancestor of the  *)
(* raw path (itself included) that exists and the tail the raw components  *)
(* below A: nothing dropped, duplicated or reordered, and A the deepest    *)
(* existing ancestor.                                                      *)
(***************************************************************************)
\* the ancestor made of the first k components of a raw path; all of them is
\* the raw path itself, as written
Ancestor(p, k) ==
    IF k = Len(BodyFrom(p, 1)) THEN p
    ELSE MkPath(p.abs, SubSeq(BodyFrom(p, 1), 1, k), FALSE)

ExistingAncestors(f, p) ==
    {k \in 0..Len(BodyFrom(p, 1)) : exists(f, Ancestor(p, k))}

\* canonical(A) followed by the components of p below A = Ancestor(p, k)
BaseAndTail(f, p, k) ==
    AbsPath(Resolve(f, Ancestor(p, k)).at
            \o SubSeq(BodyFrom(p, 1), k + 1, Len(BodyFrom(p, 1))))

C10_NearestAncestorAndTail ==
    (call.op = "validate_creatable_path" /\ call.result.kind = "Ok")
        => /\ ExistingAncestors(fs, call.path) # {}
           /\ call.result.path =
                  BaseAndTail(fs, call.path, SetMax(ExistingAncestors(fs, call.path)))

\* /ws/b/a with /ws/b missing: the ancestor is /ws and the tail b, a
C10_Witness ==
    /\ call.op = "validate_creatable_path"
    /\ call.path = AbsPath(<<"ws", "b", "a">>)
    /\ ExistingAncestors(fs, call.path) = {0, 1}
    /\ call.result = Ok(AbsPath(<<"ws", "b", "a">>))

(***************************************************************************)
(* C11.  As claimed: validate_creatable_path returns NotFound when neither *)
(* the target nor any of its ancestors exists, and also when the upward    *)
(* walk reaches the filesystem root without finding an ancestor that lies  *)
(* inside a sandbox root.                                                  *)
(***************************************************************************)
\* no segment of the raw path is "." or ".."
DotFree(p) == \A i \in 1..Len(p.segs) : p.segs[i] \in Names

\* the canonical form of the nearest existing ancestor
NearestBase(f, p) == Resolve(f, Ancestor(p, SetMax(ExistingAncestors(f, p)))).at

\* there is no existing ancestor, or the nearest one lies outside every root
NoAllowedAncestor(f, dirs, p) ==
    \/ ExistingAncestors(f, p) = {}
    \/ ~Contained(dirs, NearestBase(f, p))

C11_NotFoundAsClaimed ==
    (call.op = "validate_creatable_path" /\ DotFree(call.path)
        /\ ~exists(fs, call.path)
        /\ NoAllowedAncestor(fs, allowed_dirs, call.path))
        => call.result.kind = "NotFound"

(***************************************************************************)
(* C11, amended.  For a raw path that passes the scan for "." and "..",    *)
(* validate_creatable_path returns NotFound exactly when neither the path  *)
(* nor any of its lexical ancestors exists, which only a relative path can *)
(* bring about, and then NotFound carries the raw path; when the nearest   *)
(* existing ancestor (the filesystem root at the latest, for an absolute   *)
(* path) lies outside every sandbox root the answer is PathDenied.         *)
(***************************************************************************)
C11_NotFound ==
    (call.op = "validate_creatable_path" /\ ~HasDotComponent(call.path))
        => IF ExistingAncestors(fs, call.path) = {}
           THEN call.result = NotFound(call.path) /\ ~call.path.abs
           ELSE IF ~Contained(allowed_dirs, NearestBase(fs, call.path))
           THEN call.result = PathDenied(call.path)
           ELSE call.result.kind = "Ok"

\* the relative name b, absent from the working directory: no ancestor left
C11_Witness ==
    /\ call.op = "validate_creatable_path"
    /\ call.path = MkPath(FALSE, <<"b">>, FALSE)
    /\ ExistingAncestors(fs, call.path) = {}
    /\ call.result = NotFound(call.path)

(***************************************************************************)
(* C12.  Typed rejections and their precedence: for a path contained in a  *)
(* root, validate_path_exists returns NotFound iff the target does not     *)
(* exist, validate_file returns NotAFile iff the target exists and is not  *)
(* a regular file, validate_directory returns NotADirectory iff the target *)
(* exists and is not a directory; containment is decided first, so         *)
(* NotFound, NotAFile and NotADirectory are only ever returned for paths   *)
(* that passed containment.                                                *)
(***************************************************************************)
\* the location the raw path leads to lies under a root
LeadsInside == Contained(allowed_dirs, Designates(fs, call.path))

TypedRejections == {"NotFound", "NotAFile", "NotADirectory"}

C12_TypedRejections ==
    /\ (call.op = "validate_path_exists" /\ LeadsInside)
           => (call.result.kind = "NotFound" <=> ~exists(fs, call.path))
    /\ (call.op = "validate_file" /\ LeadsInside)
           => (call.result.kind = "NotAFile"
                   <=> (exists(fs, call.path) /\ ~is_file(fs, call.path)))
    /\ (call.op = "validate_directory" /\ LeadsInside)
           => (call.result.kind = "NotADirectory"
                   <=> (exists(fs, call.path) /\ ~is_dir(fs, call.path)))
    /\ (Called /\ call.result.kind \in TypedRejections) => LeadsInside

(***************************************************************************)
(* C13.  Every rejection returned by a validator (PathDenied, NotFound,    *)
(* NotAFile, NotADirectory) carries the raw path exactly as the caller     *)
(* supplied it, never a parent, an ancestor or a canonical form of it.     *)
(***************************************************************************)
Rejected == Called /\ call.result.kind # "Ok"

C13_RejectionCarriesRawPath == Rejected => call.result.path = call.path

(***************************************************************************)
(* C14.  The resolver is read-only: no call to a validator, successful or  *)
(* rejected, changes the filesystem, and none changes the sandbox root     *)
(* set, which stays the one given at construction.                         *)
(***************************************************************************)
C14_ReadOnly == [][fs' = fs /\ allowed_dirs' = allowed_dirs]_vars

\* a rejected call has been answered with the second root still listed
C14_Witness ==
    /\ call.op = "validate_file"
    /\ call.result.kind = "NotAFile"
    /\ allowed_dirs = <<WS2, WS>>

(***************************************************************************)
(* What a walk has to show.                                                *)
(***************************************************************************)
\* the location is an entry the tree walk from root comes to with depth
\* bound d: at most d + 1 levels down, nothing on the way hidden or without
\* metadata, directories all the way and a directory or a file at the end
OnTheWay(f, root, loc, k) ==
    /\ ~Hidden(loc[k])
    /\ IF k < Len(loc) THEN IsDirEntry(f[SubSeq(loc, 1, k)])
       ELSE IsDirEntry(f[loc]) \/ IsFileEntry(f[loc])

ToShow(f, root, d) ==
    {loc \in DOMAIN f :
        /\ IsPrefix(root, loc)
        /\ Len(loc) > Len(root)
        /\ Len(loc) - Len(root) <= d + 1
        /\ \A k \in (Len(root) + 1)..Len(loc) : OnTheWay(f, root, loc, k)}

\* the positions of the lines of a kind in an output
LinesOf(output, kinds) == {i \in 1..Len(output) : output[i].kind \in kinds}

TreeAnswered == call.op = "directory_tree" /\ call.result.ok

ListAnswered == call.op = "list_directory" /\ call.result.ok

SearchAnswered == call.op = "search_files" /\ call.result.ok

\* the depth bound of the tree request: the caller's, else the configured one
RequestedDepth == IF call.max_depth.some THEN call.max_depth.v ELSE config.max_depth

\* at most ceiling entries; with more to show exactly ceiling entries and one
\* notice, the last line; else all the entries and no notice
Ceiling(entries, notices, total, ceiling, len) ==
    /\ Cardinality(entries) <= ceiling
    /\ IF total > ceiling
       THEN Cardinality(entries) = ceiling /\ notices = {len}
       ELSE Cardinality(entries) = total /\ notices = {}

(***************************************************************************)
(* C15.  Entry ceiling: directory_tree (directories and files counted over *)
(* the whole recursive walk) and list_directory each emit at most their    *)
(* ceiling of entries (1000 in the code); when more entries exist the      *)
(* output has exactly that many entries followed by exactly one truncation *)
(* notice, and otherwise no notice.  The notice is never duplicated, at    *)
(* whatever nesting depth the ceiling is hit.                              *)
(***************************************************************************)
C15_EntryCeiling ==
    /\ TreeAnswered =>
           Ceiling(LinesOf(call.result.output, {"dir", "file"}),
                   LinesOf(call.result.output, {"notice"}),
                   Cardinality(ToShow(fs, call.result.root, RequestedDepth)),
                   MAX_TREE_ENTRIES, Len(call.result.output))
    /\ ListAnswered =>
           Ceiling({i \in 1..Len(call.result.output) :
                        call.result.output[i].tag \in {"DIR", "FILE"}},
                   {i \in 1..Len(call.result.output) :
                        call.result.output[i].tag = "NOTICE"},
                   Cardinality(ListedDirs(fs, call.result.root))
                       + Cardinality(ListedFiles(fs, call.result.root)),
                   MAX_DIR_ENTRIES, Len(call.result.output))

\* the ceiling is hit two levels down, with more to show on the levels above
C15_Witness ==
    /\ TreeAnswered
    /\ Len(call.result.output) = MAX_TREE_ENTRIES + 1
    /\ call.result.output[MAX_TREE_ENTRIES + 1].kind = "notice"
    /\ Len(call.result.output[MAX_TREE_ENTRIES + 1].prefix) = 2
    /\ Cardinality(ToShow(fs, call.result.root, RequestedDepth)) > MAX_TREE_ENTRIES + 2

(***************************************************************************)
(* C16.  Depth bound of both walks: with effective maximum depth d,        *)
(* directory_tree and search_files read the contents only of directories   *)
(* at depth <= d below the start directory (depth 0); with d = 0 the tree  *)
(* shows the immediate children only and the search matches only files     *)
(* directly in the start directory.  Directories beyond the bound are not  *)
(* descended into and cause no error.                                      *)
(***************************************************************************)
\* levels between the start directory and a location below it
DepthBelow(root, loc) == Len(loc) - Len(root)

\* every directory read lies within d levels, every location shown or
\* matched is an entry of such a directory
WithinDepth(root, opened, shown, d) ==
    /\ \A dir \in opened : IsPrefix(root, dir) /\ DepthBelow(root, dir) <= d
    /\ \A loc \in shown : IsPrefix(root, loc) /\ DepthBelow(root, loc) <= d + 1

\* what validate_directory makes of the path of the request
StartDir == validate_directory(fs, allowed_dirs, call.path)

\* a directory the tree walk from the start directory has to read and cannot
Unreadable(f, root, d) ==
    {loc \in ToShow(f, root, d) \cup {root} :
        /\ DepthBelow(root, loc) <= d
        /\ f[loc].kind = "dir"
        /\ ~CanReadDir(f, loc)}

\* an error of the walk comes from a directory within the bound
ErrorWithinBound(v) ==
    call.result.error = "Io"
        => v.kind = "Ok" /\ Unreadable(fs, v.path.segs, RequestedDepth) # {}

C16_DepthBound ==
    /\ TreeAnswered =>
           WithinDepth(call.result.root, call.result.opened,
                       {call.result.output[i].at :
                            i \in LinesOf(call.result.output, {"dir", "file"})},
                       RequestedDepth)
    /\ SearchAnswered =>
           WithinDepth(call.result.root, call.result.opened,
                       Range(call.result.output), config.max_depth)
    /\ call.op = "directory_tree" => ErrorWithinBound(StartDir)
    /\ call.op = "search_files" => call.result.error # "Io"

\* depth 0 from /ws: the directory a is shown, the file b in it is not
C16_Witness ==
    /\ TreeAnswered
    /\ RequestedDepth = 0
    /\ call.result.root = WS
    /\ fs[WS_A_B] = PlainFile
    /\ \E i \in 1..Len(call.result.output) : call.result.output[i].at = WS_A
    /\ \A i \in 1..Len(call.result.output) : call.result.output[i].at # WS_A_B

(***************************************************************************)
(* C17.  The depth of a directory_tree walk is bounded by the configured   *)
(* maximum depth (Config.max_depth): whatever max_depth the caller passes, *)
(* no directory deeper than Config.max_depth below the start directory has *)
(* its contents read or rendered.                                          *)
(***************************************************************************)
C17_ConfiguredDepthBound ==
    TreeAnswered =>
        WithinDepth(call.result.root, call.result.opened,
                    {call.result.output[i].at :
                         i \in LinesOf(call.result.output, {"dir", "file"})},
                    config.max_depth)

(***************************************************************************)
(* C18.  Soft skip inside a walk: once the start directory has been        *)
(* authorized and opened, an OS error on an individual entry (a            *)
(* subdirectory that cannot be read, an entry whose metadata cannot be     *)
(* read) never makes directory_tree or search_files fail; the call returns *)
(* Ok with the rest.                                                       *)
(***************************************************************************)
\* the start directory is authorized and can be read, the pattern compiles
Started(v) ==
    /\ v.kind = "Ok"
    /\ CanReadDir(fs, v.path.segs)
    /\ call.op = "search_files" => Compiles(call.pattern)

C18_SoftSkip ==
    (call.op \in {"directory_tree", "search_files"} /\ Started(StartDir))
        => call.result.ok

(***************************************************************************)
(* C19.  Tree ordering: at every level of directory_tree all directories   *)
(* come before all files, each group in ascending order of name, the       *)
(* subtree of a directory follows its line immediately, and nothing whose  *)
(* name begins with "." nor anything below it is shown; list_directory     *)
(* likewise puts directories before files, each group sorted by name.      *)
(***************************************************************************)
\* lines i < j of one level: a directory never after a file, and two of a
\* kind in ascending order of name
Ordered(kind_i, name_i, kind_j, name_j) ==
    IF kind_i = kind_j THEN StrLess(Spelling(name_i), Spelling(name_j))
    ELSE kind_i \in {"dir", "DIR"}

TreeLevelsOrdered(out, entries) ==
    \A i \in entries, j \in entries :
        (i < j /\ Front(out[i].at) = Front(out[j].at))
            => Ordered(out[i].kind, out[i].name, out[j].kind, out[j].name)

\* the line of the directory an entry is in comes before it, with nothing
\* in between but entries below that directory
SubtreesFollow(root, out, entries) ==
    \A j \in entries :
        Front(out[j].at) # root
            => \E i \in entries :
                   /\ i < j
                   /\ out[i].at = Front(out[j].at)
                   /\ \A k \in entries :
                          (i < k /\ k < j) => IsPrefix(out[i].at, out[k].at)

NothingHidden(root, out, entries) ==
    \A i \in entries :
        \A k \in (Len(root) + 1)..Len(out[i].at) : ~Hidden(out[i].at[k])

ListOrdered(out, entries) ==
    \A i \in entries, j \in entries :
        i < j => Ordered(out[i].tag, out[i].name, out[j].tag, out[j].name)

TreeOrdering ==
    TreeAnswered =>
        /\ TreeLevelsOrdered(call.result.output,
                             LinesOf(call.result.output, {"dir", "file"}))
        /\ SubtreesFollow(call.result.root, call.result.output,
                          LinesOf(call.result.output, {"dir", "file"}))
        /\ NothingHidden(call.result.root, call.result.output,
                         LinesOf(call.result.output, {"dir", "file"}))

C19_Ordering ==
    /\ TreeOrdering
    /\ ListAnswered =>
           ListOrdered(call.result.output,
                       {i \in 1..Len(call.result.output) :
                            call.result.output[i].tag \in {"DIR", "FILE"}})

(***************************************************************************)
(* C20.  Result cap of search_files: for every max_results (absent, 0, 1,  *)
(* ..., above the hard ceiling) the number of results never exceeds        *)
(* cap = min(max_results, or the default when absent, hard ceiling);       *)
(* reaching the cap stops the walk and the output is marked truncated.     *)
(***************************************************************************)
Min(a, b) == IF a < b THEN a ELSE b

ClaimedCap(max_results) ==
    Min(IF max_results.some THEN max_results.v ELSE DefaultMaxResults, MaxResultsCap)

C20_ResultCap ==
    SearchAnswered =>
        /\ Len(call.result.output) <= ClaimedCap(call.max_results)
        /\ Len(call.result.output) = ClaimedCap(call.max_results)
               => call.result.truncated

(***************************************************************************)
(* C21.  search_files is deterministic: on the same tree, the same start   *)
(* directory, pattern, limit and depth give the same results in the same   *)
(* order, and when the cap is hit the same subset is kept, whatever the    *)
(* order in which the operating system hands back the directory entries.   *)
(***************************************************************************)
C21_SearchDeterministic ==
    SearchAnswered =>
        \A ord \in ReadDirOrders :
            search_files(fs, allowed_dirs, config, call.path, call.pattern,
                         call.max_results, ord).output = call.result.output

(***************************************************************************)
(* C27.  Traversal never leaves the authorized directory: directory_tree,  *)
(* search_files and list_directory classify an entry without following     *)
(* symbolic links, so a link entry is neither descended into nor reported, *)
(* and every path they read or emit lies under the canonical start         *)
(* directory, which is authorized.                                         *)
(***************************************************************************)
\* the locations an answer reports
Shown ==
    CASE call.op = "directory_tree" ->
             {call.result.output[i].at : i \in LinesOf(call.result.output, {"dir", "file"})}
      [] call.op = "list_directory" ->
             {Append(call.result.root, call.result.output[i].name) :
                 i \in {j \in 1..Len(call.result.output) :
                            call.result.output[j].tag \in {"DIR", "FILE"}}}
      [] call.op = "search_files" -> Range(call.result.output)
      [] OTHER -> {}

\* strictly below the root, over directories that are no links
BelowRoot(f, root, loc) ==
    /\ IsPrefix(root, loc)
    /\ \A k \in Len(root)..(Len(loc) - 1) : f[SubSeq(loc, 1, k)].kind = "dir"

C27_TraversalStaysInside ==
    (TreeAnswered \/ ListAnswered \/ SearchAnswered) =>
        /\ Contained(allowed_dirs, call.result.root)
        /\ fs[call.result.root].kind = "dir"
        /\ \A d \in call.result.opened :
               BelowRoot(fs, call.result.root, d) /\ fs[d].kind = "dir"
        /\ \A loc \in Shown :
               /\ Len(loc) > Len(call.result.root)
               /\ BelowRoot(fs, call.result.root, loc)
               /\ fs[loc].kind \in {"dir", "file"}

\* a tree of /ws, which holds the link l to /ws/a, that went down into /ws/a
C27_Witness ==
    /\ TreeAnswered
    /\ call.result.root = WS
    /\ fs[WS_L].kind = "link"
    /\ WS_A \in call.result.opened
    /\ WS_A_B \in Shown

(***************************************************************************)
(* C29.  The validators refine one another: when validate_file or          *)
(* validate_directory returns Ok(c), validate_path_exists returns Ok(c),   *)
(* and when validate_path_exists returns Ok(c), validate_path returns      *)
(* Ok(c); and for every path free of "." and ".." segments whose target or *)
(* whose parent exists, validate_creatable_path and validate_path agree on *)
(* success versus rejection and, on success, on the path returned.         *)
(***************************************************************************)
TargetOrParentExists(f, p) ==
    exists(f, p) \/ (HasParent(p) /\ exists(f, Parent(p)))

Agree(r1, r2) ==
    IF r1.kind = "Ok" THEN r2 = r1 ELSE r2.kind # "Ok"

C29_Chain ==
    Accepted =>
        /\ call.op \in {"validate_file", "validate_directory"} =>
               validate_path_exists(fs, allowed_dirs, call.path) = call.result
        /\ call.op = "validate_path_exists" =>
               validate_path(fs, allowed_dirs, call.path) = call.result

C29_Creatable ==
    (/\ Called
     /\ call.op = "validate_creatable_path"
     /\ DotFree(call.path)
     /\ TargetOrParentExists(fs, call.path)) =>
        Agree(call.result, validate_path(fs, allowed_dirs, call.path))

C29_Refinement == C29_Chain /\ C29_Creatable

\* a path that is not there yet, below an existing parent, accepted by
\* validate_creatable_path with a path other than the one given
C29_Witness ==
    /\ Accepted
    /\ call.op = "validate_creatable_path"
    /\ DotFree(call.path)
    /\ ~exists(fs, call.path)
    /\ TargetOrParentExists(fs, call.path)
    /\ call.result.path # call.path

(***************************************************************************)
(* What a handler may touch.                                               *)
(***************************************************************************)
HandlerAnswered == call.op \in tool_router(config) /\ call.op \notin Tools

\* the results of the resolver for the paths of a request, in the order the
\* handler asks for them
Resolutions(f, dirs, c) ==
    CASE c.op \in {"read_file", "edit_file", "delete_file"} ->
             <<validate_file(f, dirs, c.path)>>
      [] c.op = "read_multiple_files" ->
             [i \in 1..Len(c.args.paths) |-> validate_file(f, dirs, c.args.paths[i])]
      [] c.op = "get_file_info" -> <<validate_path_exists(f, dirs, c.path)>>
      [] c.op = "write_file" -> <<validate_path(f, dirs, c.path)>>
      [] c.op = "create_directory" -> <<validate_creatable_path(f, dirs, c.path)>>
      [] c.op = "delete_directory" -> <<validate_directory(f, dirs, c.path)>>
      [] c.op = "move_file" ->
             <<validate_path_exists(f, dirs, c.path),
               validate_path(f, dirs, c.args.destination)>>

SomeRejected(vs) == \E i \in 1..Len(vs) : vs[i].kind # "Ok"

\* the locations the OS call of a handler may change, given the paths the
\* resolver returned: the file a write leads to, the entry an unlink or
\* rmdir names, the directories down to the one mkdir -p is asked for, the
\* trees below the two entries of a rename
MayChange(f, op, vs, loc) ==
    CASE op \in {"edit_file", "write_file"} -> loc = Designates(f, vs[1].path)
      [] op \in {"delete_file", "delete_directory"} -> loc = EntryLoc(f, vs[1].path).at
      [] op = "create_directory" -> IsPrefix(loc, Designates(f, vs[1].path))
      [] op = "move_file" ->
             \/ IsPrefix(EntryLoc(f, vs[1].path).at, loc)
             \/ IsPrefix(EntryLoc(f, vs[2].path).at, loc)
      [] OTHER -> FALSE

\* the paths an Ok answer reports
Reported(c) ==
    CASE c.op = "read_multiple_files" -> {}
      [] c.op = "move_file" -> {c.result.out.source, c.result.out.destination}
      [] OTHER -> {c.result.out.path}

\* what was read is what the returned path leads to
ReadThrough(f, c, vs) ==
    /\ c.op = "read_file" /\ c.result.ok /\ c.result.out.total > 0 =>
           /\ read(f, vs[1].path).ok
           /\ c.result.out.total = Len(lines(from_utf8_lossy(read(f, vs[1].path).data)))
    /\ c.op = "read_multiple_files" =>
           \A i \in 1..Len(vs) :
               IF vs[i].kind # "Ok"
               THEN c.result.out[i].error = vs[i].kind /\ c.result.out[i].text = <<>>
               ELSE c.result.out[i].error = "" =>
                        /\ c.result.out[i].canonical = vs[i].path
                        /\ c.result.out[i].text = from_utf8_lossy(read(f, vs[i].path).data)

\* a request with a rejected path changes nothing; one without changes only
\* what the returned paths lead to and reports the returned paths
ActsOnReturnedPaths(f, g, c, vs) ==
    IF SomeRejected(vs) THEN g = f
    ELSE /\ \A loc \in DOMAIN f : g[loc] # f[loc] => MayChange(f, c.op, vs, loc)
         /\ c.result.ok => Reported(c) \subseteq {vs[i].path : i \in 1..Len(vs)}

Occurrences(content, old_text) ==
    {i \in 1..(Len(content) + 1) : MatchesAt(content, old_text, i)}

RECURSIVE ClaimedEdits(_, _, _)
ClaimedEdits(content, edits, i) ==
    IF i > Len(edits) THEN [ok |-> TRUE, content |-> content]
    ELSE IF Cardinality(Occurrences(content, edits[i].old_text)) # 1
    THEN [ok |-> FALSE, content |-> content]
    ELSE ClaimedEdits(replacen(content, edits[i].old_text, edits[i].new_text),
                      edits, i + 1)

\* the file an edit_file request is about can be read as text
Editable(f, dirs, c) ==
    /\ c.op = "edit_file"
    /\ validate_file(f, dirs, c.path).kind = "Ok"
    /\ read_to_string(f, validate_file(f, dirs, c.path).path).ok

EditedAsClaimed(f, g, c, canonical, claimed) ==
    IF claimed.ok
    THEN c.result.ok /\ read(g, canonical).data = claimed.content
    ELSE c.result.error = "EditFailed" /\ g = f

C23_EditAllOrNothing ==
    [][Editable(fs, allowed_dirs, call') =>
           EditedAsClaimed(fs, fs', call', validate_file(fs, allowed_dirs, call'.path).path,
               ClaimedEdits(read(fs, validate_file(fs, allowed_dirs, call'.path).path).data,
                            call'.args.edits, 1))]_vars

(***************************************************************************)
(* C24.  Tool gating: for every validated configuration the service        *)
(* exposes exactly the seven read-only tools, plus edit_file, write_file   *)
(* and create_directory iff allow_write is on, plus delete_file, move_file *)
(* and delete_directory iff allow_destructive is on; Config::validate      *)
(* turns allow_write on whenever allow_destructive is on, so the           *)
(* destructive tools never come without the write tools.                   *)
(***************************************************************************)
ReadOnlyTools ==
    {"list_allowed_directories", "list_directory", "read_file",
     "read_multiple_files", "get_file_info", "directory_tree", "search_files"}

WriteTools == {"edit_file", "write_file", "create_directory"}

DestructiveTools == {"delete_file", "move_file", "delete_directory"}

Exposed(tools) == tools \subseteq tool_router(config)

UnreadableBecause(f, dirs, cfg, p) ==
    LET v == validate_file(f, dirs, p)
    IN  IF v.kind # "Ok" THEN v.kind
        ELSE IF Len(read(f, v.path).data) > cfg.max_read_size THEN "FileTooLarge"
        ELSE IF NUL \in Range(read(f, v.path).data) THEN "BinaryFile"
        ELSE ""

C25_PartialFailure ==
    call.op = "read_multiple_files" =>
        /\ call.result.ok
        /\ Len(call.result.out) = Len(call.args.paths)
        /\ \A i \in 1..Len(call.args.paths) :
               /\ call.result.out[i].file_path = call.args.paths[i]
               /\ call.result.out[i].error =
                      UnreadableBecause(fs, allowed_dirs, config, call.args.paths[i])
               /\ call.result.out[i] =
                      read_multiple_files(fs, allowed_dirs, config,
                                          <<call.args.paths[i]>>).result.out[1]

\* one path that is read and one that is denied, either way round
C25_Witness ==
    /\ call.op = "read_multiple_files"
    /\ call.result.ok
    /\ Len(call.result.out) = 2
    /\ call.result.out[1].error = "PathDenied"
    /\ call.result.out[2].error = ""
    /\ call.result.out[2].text # <<>>

(***************************************************************************)
(* C26.  Line-range arithmetic of read_file: for a non-empty text file of  *)
(* n lines and every offset and limit that fits the width of the machine   *)
(* word, the call returns an error when offset >= n and otherwise exactly  *)
(* the lines offset .. min(offset + limit, n) - 1 (through n - 1 when      *)
(* limit is absent), reported as lines offset + 1 to that end; the sum     *)
(* offset + limit never overflows or wraps.                                *)
(***************************************************************************)
\* the lines of the file a read_file request is about, <<>> when the request
\* fails before the lines are counted
TextLines(f, dirs, cfg, c) ==
    LET v == validate_file(f, dirs, c.path)
    IN  IF \/ v.kind # "Ok"
           \/ IsBinary(read(f, v.path).data)
           \/ (/\ ~c.args.offset.some
               /\ ~c.args.limit.some
               /\ Len(read(f, v.path).data) > cfg.max_read_size)
        THEN <<>>
        ELSE lines(from_utf8_lossy(read(f, v.path).data))

ClaimedRange(result, ls, offset, end) ==
    IF offset >= Len(ls) THEN ~result.ok
    ELSE /\ result.ok
         /\ result.out.first = offset + 1
         /\ result.out.last = end
         /\ result.out.lines = SubSeq(ls, offset + 1, end)

C26_LineRange ==
    (call.op = "read_file" /\ TextLines(fs, allowed_dirs, config, call) # <<>>) =>
        ClaimedRange(call.result, TextLines(fs, allowed_dirs, config, call),
            IF call.args.offset.some THEN call.args.offset.v ELSE 0,
            IF call.args.limit.some
            THEN Min((IF call.args.offset.some THEN call.args.offset.v ELSE 0)
                         + call.args.limit.v,
                     Len(TextLines(fs, allowed_dirs, config, call)))
            ELSE Len(TextLines(fs, allowed_dirs, config, call)))

(***************************************************************************)
(* C30.  No lost update between concurrent edits: when two edit_file       *)
(* requests on the same file are in flight at the same time and both       *)
(* return success, the final content of the file reflects the replacements *)
(* of both: one of the two has read what the other wrote, and the file     *)
(* holds what that one wrote.                                              *)
(***************************************************************************)
BothSucceeded ==
    /\ \A t \in Tasks : call[t].pc = "done" /\ call[t].result.ok
    /\ call[1].canonical = call[2].canonical

C30_NoLostUpdate ==
    BothSucceeded =>
        \E t \in Tasks, u \in Tasks :
            /\ t # u
            /\ call[u].original = call[t].content
            /\ read(fs, call[u].canonical).data = call[u].content

(***************************************************************************)
(* C28.  Every resolver call and every traversal terminates on a           *)
(* filesystem that does not change: the upward walk of                     *)
(* validate_creatable_path moves to a parent at most as many times as the  *)
(* raw path has components (relative and empty paths included), the stack  *)
(* walk of search_files and the recursion of build_tree_sync read each     *)
(* directory at most once, whatever max_depth is, and every call returns,  *)
(* with the answer the handlers give.                                      *)
(***************************************************************************)
WalkUpBounded ==
    call.op = "validate_creatable_path" =>
        Len(call.w.tail) <= Len(Components(call.path))

VisitedOnce ==
    call.op \in {"search_files", "directory_tree"} =>
        \A i, j \in 1..Len(call.visits) :
            call.visits[i] = call.visits[j] => i = j

\* the start directory was accepted
StartAccepted == validate_directory(fs, allowed_dirs, call.path).kind = "Ok"

\* a call that has returned has done what the handler does
ReturnedAsHandled ==
    (call # NoCall /\ call.done) =>
        CASE call.op = "validate_creatable_path" ->
                 HasDotComponent(call.path) \/ call.w = WalkUp(fs, call.path, <<>>)
          [] call.op = "search_files" ->
                 StartAccepted =>
                     /\ call.w = SearchWalk(fs, call.q,
                            Walked(<<[dir |-> call.q.canonical, depth |-> 0]>>,
                                   <<>>, {}, FALSE))
                     /\ Range(call.visits) = call.w.opened
          [] call.op = "directory_tree" ->
                 /\ call.w.frames = <<>>
                 /\ StartAccepted =>
                     /\ call.w.acc = build_tree_sync(fs,
                            validate_directory(fs, allowed_dirs, call.path).path.segs,
                            <<>>, call.max_depth, 0,
                            [err |-> FALSE, output |-> <<>>, count |-> 0,
                             opened |-> {}])
                     /\ Range(call.visits) = call.w.acc.opened

\* a call that has not returned has a next turn, which changes its state
GoesOn ==
    /\ Running("validate_creatable_path") => WalkUpStep(fs, call.w) # call.w
    /\ Running("search_files") => Turn(fs, call.q, call.w) # call.w
    /\ Running("directory_tree") => TreeStep(fs, call.max_depth, call.w) # call.w

C28_Terminates ==
    /\ [](WalkUpBounded /\ VisitedOnce /\ ReturnedAsHandled /\ GoesOn)
    /\ <>Stopped

\* a tree of three directories or more walked to the end without a limit
C28_Witness ==
    /\ call.op \in {"search_files", "directory_tree"}
    /\ call.done
    /\ call.max_depth = Unlimited
    /\ Len(call.visits) >= 3

====
